---- MODULE Spec2Model ----
(***************************************************************************)
(* Model of github.com/deblasis/take: the dispatcher Take of pkg/take, its *)
(* git, tarball and zip handlers, and the helpers of internal/git.         *)
(*                                                                         *)
(* A Go string is a sequence of one-character strings, a filesystem is a   *)
(* set of directory paths and a map from file paths to contents.  The      *)
(* external tools (git, tar), the HTTP server and the OS are the           *)
(* environment: their outcomes are chosen nondeterministically.            *)
(***************************************************************************)
EXTENDS Integers, Sequences, FiniteSets, TLC

(***************************************************************************)
(* Strings: the functions of package strings that the code uses.           *)
(***************************************************************************)
Slash == <<"/">>

Dot == <<".">>

DotDot == <<".", ".">>

HasPrefix(s, p) == Len(s) >= Len(p) /\ SubSeq(s, 1, Len(p)) = p

HasSuffix(s, p) == Len(s) >= Len(p) /\ SubSeq(s, Len(s) - Len(p) + 1, Len(s)) = p

Contains(s, sub) ==
    \E i \in 1..(Len(s) - Len(sub) + 1) : SubSeq(s, i, i + Len(sub) - 1) = sub

TrimSuffix(s, p) == IF HasSuffix(s, p) THEN SubSeq(s, 1, Len(s) - Len(p)) ELSE s

\* Index of the last occurrence of the character c in s, 0 when there is none.
LastIndex(s, c) ==
    LET RECURSIVE Back(_)
        Back(i) == IF i = 0 THEN 0 ELSE IF s[i] = c THEN i ELSE Back(i - 1)
    IN  Back(Len(s))

\* Index of the first occurrence of the character c in s, 0 when there is none.
FirstIndex(s, c) ==
    LET RECURSIVE Forth(_)
        Forth(i) == IF i > Len(s) THEN 0 ELSE IF s[i] = c THEN i ELSE Forth(i + 1)
    IN  Forth(1)

\* strings.Split(s, c) for a one-character separator c.
RECURSIVE Split(_, _)
Split(s, c) ==
    LET i == FirstIndex(s, c)
    IN  IF i = 0 THEN <<s>>
        ELSE <<SubSeq(s, 1, i - 1)>> \o Split(SubSeq(s, i + 1, Len(s)), c)

\* strings.Join(parts, "/")
RECURSIVE JoinSlash(_)
JoinSlash(parts) ==
    IF Len(parts) = 0 THEN <<>>
    ELSE IF Len(parts) = 1 THEN parts[1]
    ELSE parts[1] \o Slash \o JoinSlash(Tail(parts))

(***************************************************************************)
(* Paths: the functions of package path/filepath (Unix separators).        *)
(***************************************************************************)
IsAbs(path) == HasPrefix(path, Slash)

\* The segments that Clean keeps: "" and "." are dropped, ".." removes the
\* segment before it, is dropped at the root and kept at the head of a
\* relative path.
RECURSIVE CleanSegs(_, _, _)
CleanSegs(segs, acc, rooted) ==
    IF Len(segs) = 0 THEN acc
    ELSE LET s == Head(segs)
         IN  IF s = <<>> \/ s = Dot THEN CleanSegs(Tail(segs), acc, rooted)
             ELSE IF s = DotDot
                  THEN IF Len(acc) > 0 /\ acc[Len(acc)] # DotDot
                       THEN CleanSegs(Tail(segs), SubSeq(acc, 1, Len(acc) - 1), rooted)
                       ELSE IF rooted THEN CleanSegs(Tail(segs), acc, rooted)
                       ELSE CleanSegs(Tail(segs), Append(acc, s), rooted)
             ELSE CleanSegs(Tail(segs), Append(acc, s), rooted)

Clean(path) ==
    IF path = <<>> THEN Dot
    ELSE LET rooted == IsAbs(path)
             kept == CleanSegs(Split(path, "/"), <<>>, rooted)
         IN  IF rooted THEN Slash \o JoinSlash(kept)
             ELSE IF Len(kept) = 0 THEN Dot
             ELSE JoinSlash(kept)

\* filepath.Join(a, b): empty elements are ignored, the result is cleaned.
Join(a, b) ==
    IF a = <<>> /\ b = <<>> THEN <<>>
    ELSE IF a = <<>> THEN Clean(b)
    ELSE IF b = <<>> THEN Clean(a)
    ELSE Clean(a \o Slash \o b)

RECURSIVE StripTrailingSlashes(_)
StripTrailingSlashes(path) ==
    IF Len(path) > 0 /\ path[Len(path)] = "/"
    THEN StripTrailingSlashes(SubSeq(path, 1, Len(path) - 1))
    ELSE path

Base(path) ==
    IF path = <<>> THEN Dot
    ELSE LET p == StripTrailingSlashes(path)
             i == LastIndex(p, "/")
             b == SubSeq(p, i + 1, Len(p))
         IN  IF b = <<>> THEN Slash ELSE b

Dir(path) == Clean(SubSeq(path, 1, LastIndex(path, "/")))

\* filepath.Ext: from the last dot of the final element.
Ext(path) ==
    LET d == LastIndex(path, ".")
    IN  IF d = 0 \/ d < LastIndex(path, "/") THEN <<>> ELSE SubSeq(path, d, Len(path))

(***************************************************************************)
(* urlPatterns (pkg/take/take.go): the three regular expressions, matched  *)
(* as Go's regexp matches them: '.' matches every character but a newline  *)
(* and '$' only the end of the text.                                       *)
(***************************************************************************)
Alnum ==
    { "a", "b", "c", "d", "e", "f", "g", "h", "i", "j", "k", "l", "m", "n", "o", "p",
      "q", "r", "s", "t", "u", "v", "w", "x", "y", "z", "A", "B", "C", "D", "E", "F",
      "G", "H", "I", "J", "K", "L", "M", "N", "O", "P", "Q", "R", "S", "T", "U", "V",
      "W", "X", "Y", "Z", "0", "1", "2", "3", "4", "5", "6", "7", "8", "9" }

NoNewline(s) == \A i \in 1..Len(s) : s[i] # "\n"

\* ^(alt1|alt2|...)  .*  (suf1|suf2|...)$ : some alternative is a prefix of s
\* and what follows it is newline-free up to one of the suffixes.
MatchPrefixRestSuffix(s, prefixLens, suffixes) ==
    \E k \in prefixLens :
        LET rest == SubSeq(s, k + 1, Len(s))
        IN  \E suf \in suffixes :
                /\ HasSuffix(rest, suf)
                /\ NoNewline(SubSeq(rest, 1, Len(rest) - Len(suf)))

\* The lengths k such that s[1..k] matches [A-Za-z0-9]+@
IdentAtLens(s) ==
    {k \in 2..Len(s) : s[k] = "@" /\ \A i \in 1..(k - 1) : s[i] \in Alnum}

WordLens(s, words) == {Len(w) : w \in {x \in words : HasPrefix(s, x)}}

GitSchemes ==
    { <<"h", "t", "t", "p">>, <<"h", "t", "t", "p", "s">>, <<"g", "i", "t">>,
      <<"s", "s", "h">>, <<"f", "t", "p">>, <<"f", "t", "p", "s">>,
      <<"r", "s", "y", "n", "c">> }

ArchiveSchemes ==
    { <<"h", "t", "t", "p">>, <<"h", "t", "t", "p", "s">>, <<"f", "t", "p">> }

DotGit == <<".", "g", "i", "t">>

DotZip == <<".", "z", "i", "p">>

TarballSuffixes ==
    { <<".", "t", "a", "r", ".", "g", "z">>, <<".", "t", "a", "r", ".", "b", "z", "2">>,
      <<".", "t", "a", "r", ".", "x", "z">>, <<".", "t", "g", "z">> }

\* ^([A-Za-z0-9]+@|https?|git|ssh|ftps?|rsync).*\.git/?$
MatchGit(s) ==
    MatchPrefixRestSuffix(s, IdentAtLens(s) \cup WordLens(s, GitSchemes),
                          {DotGit, DotGit \o Slash})

\* ^(https?|ftp).*\.(tar\.(gz|bz2|xz)|tgz)$
MatchTarball(s) ==
    MatchPrefixRestSuffix(s, WordLens(s, ArchiveSchemes), TarballSuffixes)

\* ^(https?|ftp).*\.(zip)$
MatchZip(s) == MatchPrefixRestSuffix(s, WordLens(s, ArchiveSchemes), {DotZip})

(***************************************************************************)
(* internal/git: the pure helpers.                                         *)
(***************************************************************************)
GitAt == <<"g", "i", "t", "@">>

HttpsScheme == <<"h", "t", "t", "p", "s", ":", "/", "/">>

HttpScheme == <<"h", "t", "t", "p", ":", "/", "/">>

IsValidURL(url) ==
    IF HasPrefix(url, GitAt) /\ Contains(url, <<":">>) THEN HasSuffix(url, DotGit)
    ELSE IF HasPrefix(url, HttpsScheme) THEN HasSuffix(url, DotGit)
    ELSE FALSE

\* GetRepoName without the removal of the ".git" suffix.
GetRepoNameNoTrim(url) ==
    LET parts == Split(url, ":")
        name == IF HasPrefix(url, GitAt) /\ Len(parts) = 2 THEN parts[2] ELSE url
    IN  Base(name)

GetRepoName(url) ==
    LET trimmed == TrimSuffix(url, DotGit)
        parts == Split(trimmed, ":")
        name == IF HasPrefix(trimmed, GitAt) /\ Len(parts) = 2 THEN parts[2] ELSE trimmed
    IN  Base(name)

(***************************************************************************)
(* Errors.  An error value is the chain errors.Is walks (outermost first)  *)
(* and the pieces of its message.  nil is the empty chain.                 *)
(***************************************************************************)
Nil == [chain |-> <<>>, msg |-> <<>>]

Sentinel(id, text) == [chain |-> <<id>>, msg |-> <<text>>]

ErrInvalidPath == Sentinel("take.ErrInvalidPath", "invalid path specified")

ErrPermissionDenied == Sentinel("take.ErrPermissionDenied", "permission denied")

ErrGitCloneFailed == Sentinel("take.ErrGitCloneFailed", "git clone failed")

ErrInvalidURL == Sentinel("take.ErrInvalidURL", "invalid URL format")

ErrDownloadFailed == Sentinel("take.ErrDownloadFailed", "failed to download file")

ErrExtractionFailed == Sentinel("take.ErrExtractionFailed", "failed to extract archive")

GitErrInvalidURL == Sentinel("git.ErrInvalidURL", "invalid git URL")

GitErrCloneFailed == Sentinel("git.ErrCloneFailed", "git clone failed")

\* fmt.Errorf(prefix + "%w" + suffix...): wraps inner, so errors.Is sees it.
ErrorfW(prefix, inner, rest) ==
    [chain |-> <<"fmt.wrapError">> \o inner.chain, msg |-> <<prefix>> \o inner.msg \o rest]

\* fmt.Errorf(prefix + "%v"): a new error that wraps nothing.
ErrorfV(prefix, detail) == [chain |-> <<"fmt.errorString">>, msg |-> <<prefix>> \o detail]

\* An error of the os package carrying the errno.
OsError(errno) == [chain |-> <<"os.PathError", errno>>, msg |-> <<errno>>]

\* A test that takes every error for a denial.
IsPermissionAnyError(err) == err # Nil

ErrorsIs(err, target) == \E i \in 1..Len(err.chain) : err.chain[i] = target.chain[1]

IsPermission(err) == \E i \in 1..Len(err.chain) : err.chain[i] \in {"EACCES", "EPERM"}

(***************************************************************************)
(* Options and Result.                                                     *)
(***************************************************************************)
Result(finalPath, created, cloned, downloaded, err) ==
    [FinalPath |-> finalPath, WasCreated |-> created, WasCloned |-> cloned,
     WasDownloaded |-> downloaded, Error |-> err]

\* Result{Error: err}: every other field has its zero value.
ResultError(err) == Result(<<>>, FALSE, FALSE, FALSE, err)

(***************************************************************************)
(* The state: the filesystem, the environment and the last calls of Take.  *)
(***************************************************************************)
VARIABLES
    dirs,       \* the absolute paths that are directories
    files,      \* a function from the absolute paths that are regular files to their contents
    noWrite,    \* the directories in which the OS denies creating or removing entries
    home,       \* $HOME, <<>> when it is not set
    opts,       \* the Options of the last call of Take
    result,     \* the Result the last call of Take returned
    handler,    \* the handler the last call dispatched to, "" when it dispatched to none
    events,     \* the HTTP requests and external processes of the last call, in order
    pre,        \* the filesystem as it was when the last call started
    prev,       \* opts, result and pre of the call before the last one
    calls,      \* the number of calls so far
    proc,       \* the command-line process: whether it has exited, its code and its output
    ret         \* the last direct call of a helper function: its name, arguments and value

vars == <<dirs, files, noWrite, home, opts, result, handler, events, pre, prev, calls,
          proc, ret>>

Cwd == <<"/", "w">>

TempDir == <<"/", "t">>

(***************************************************************************)
(* The filesystem operations of package os, on a filesystem (d, f): d the  *)
(* directories, f the files.  Each returns the new filesystem and an error.*)
(***************************************************************************)
\* filepath.Abs, and the way the OS resolves a relative path.
Abs(path) == IF IsAbs(path) THEN Clean(path) ELSE Join(Cwd, path)

\* The directory that holds the entry at the clean absolute path p.
Parent(p) ==
    LET i == LastIndex(p, "/") IN IF i <= 1 THEN Slash ELSE SubSeq(p, 1, i - 1)

Exists(d, f, p) == p \in d \/ p \in DOMAIN f

\* x is p or lies below p.
Under(p, x) == x = p \/ HasPrefix(x, IF p = Slash THEN Slash ELSE p \o Slash)

Children(d, f, p) == {x \in d \cup DOMAIN f : x # p /\ Parent(x) = p}

FsResult(d, f, err) == [dirs |-> d, files |-> f, err |-> err]

Mkdir(d, f, p) ==
    IF Exists(d, f, p) THEN FsResult(d, f, OsError("EEXIST"))
    ELSE IF Parent(p) \in DOMAIN f THEN FsResult(d, f, OsError("ENOTDIR"))
    ELSE IF Parent(p) \notin d THEN FsResult(d, f, OsError("ENOENT"))
    ELSE IF Parent(p) \in noWrite THEN FsResult(d, f, OsError("EACCES"))
    ELSE FsResult(d \cup {p}, f, Nil)

RECURSIVE MkdirAll(_, _, _)
MkdirAll(d, f, p) ==
    IF p \in d THEN FsResult(d, f, Nil)
    ELSE IF p \in DOMAIN f THEN FsResult(d, f, OsError("ENOTDIR"))
    ELSE CHOOSE r \in
            { IF up.err # Nil THEN up ELSE Mkdir(up.dirs, up.files, p) :
              up \in {IF Parent(p) = p THEN FsResult(d, f, Nil)
                      ELSE MkdirAll(d, f, Parent(p))} } : TRUE

\* The file created and truncated, its content never copied.
WriteFileNoCopy(d, f, p, data) ==
    IF p \in d THEN FsResult(d, f, OsError("EISDIR"))
    ELSE IF Parent(p) \in DOMAIN f THEN FsResult(d, f, OsError("ENOTDIR"))
    ELSE IF Parent(p) \notin d THEN FsResult(d, f, OsError("ENOENT"))
    ELSE IF p \notin DOMAIN f /\ Parent(p) \in noWrite THEN FsResult(d, f, OsError("EACCES"))
    ELSE FsResult(d, [x \in DOMAIN f \cup {p} |-> IF x = p THEN "" ELSE f[x]], Nil)

WriteFile(d, f, p, data) ==
    IF p \in d THEN FsResult(d, f, OsError("EISDIR"))
    ELSE IF Parent(p) \in DOMAIN f THEN FsResult(d, f, OsError("ENOTDIR"))
    ELSE IF Parent(p) \notin d THEN FsResult(d, f, OsError("ENOENT"))
    ELSE IF p \notin DOMAIN f /\ Parent(p) \in noWrite THEN FsResult(d, f, OsError("EACCES"))
    ELSE FsResult(d, [x \in DOMAIN f \cup {p} |-> IF x = p THEN data ELSE f[x]], Nil)

\* An entry can be unlinked when its directory is writable and, for a
\* directory, everything in it can be unlinked.
RECURSIVE Removable(_, _, _)
Removable(d, f, x) ==
    /\ Parent(x) \notin noWrite
    /\ x \in d => \A c \in Children(d, f, x) : Removable(d, f, c)

\* os.RemoveAll removes what it can; its error is ignored by every caller.
RemoveAll(d, f, p) ==
    LET gone == {x \in d \cup DOMAIN f : Under(p, x) /\ x # Slash /\ Removable(d, f, x)}
    IN  FsResult(d \ gone, [x \in DOMAIN f \ gone |-> f[x]], Nil)

\* os.Remove of a file.
Remove(d, f, p) ==
    IF p \in DOMAIN f /\ Parent(p) \notin noWrite
    THEN FsResult(d, [x \in DOMAIN f \ {p} |-> f[x]], Nil)
    ELSE FsResult(d, f, OsError("ENOENT"))

Rebase(old, new, x) == IF x = old THEN new ELSE new \o SubSeq(x, Len(old) + 1, Len(x))

\* os.Rename(old, new), rename(2): xdev says that old and new lie on
\* different mounted filesystems.
Rename(d, f, old, new, xdev) ==
    IF ~Exists(d, f, old) \/ Parent(new) \notin d THEN FsResult(d, f, OsError("ENOENT"))
    ELSE IF Parent(old) \in noWrite \/ Parent(new) \in noWrite THEN FsResult(d, f, OsError("EACCES"))
    ELSE IF xdev THEN FsResult(d, f, OsError("EXDEV"))
    ELSE IF old = new THEN FsResult(d, f, Nil)
    ELSE IF Under(old, new) \/ Under(new, old) THEN FsResult(d, f, OsError("EINVAL"))
    ELSE IF old \in d /\ new \in DOMAIN f THEN FsResult(d, f, OsError("ENOTDIR"))
    ELSE IF old \in DOMAIN f /\ new \in d THEN FsResult(d, f, OsError("EISDIR"))
    ELSE IF old \in d /\ new \in d /\ Children(d, f, new) # {}
         THEN FsResult(d, f, OsError("ENOTEMPTY"))
    ELSE LET movedD == {x \in d : Under(old, x)}
             movedF == {x \in DOMAIN f : Under(old, x)}
             keptF == (DOMAIN f \ movedF) \ {new}
             newF == {Rebase(old, new, x) : x \in movedF}
         IN  FsResult((d \ movedD) \cup {Rebase(old, new, x) : x \in movedD},
                      [y \in keptF \cup newF |->
                          IF y \in newF
                          THEN f[CHOOSE x \in movedF : Rebase(old, new, x) = y]
                          ELSE f[y]],
                      Nil)

\* git.IsGitRepo(dir): <dir>/.git exists and is a directory (in the
\* filesystem whose directories are d).
IsGitRepoIn(d, dir) == Abs(Join(dir, DotGit)) \in d

IsGitRepo(dir) == IsGitRepoIn(dirs, dir)

(***************************************************************************)
(* The end of a call of Take: the Result is returned and the filesystem is *)
(* as the call left it.  h names the handler the call went through.        *)
(***************************************************************************)
MaxCalls == 2

Return(o, h, res, fs, ev) ==
    /\ opts' = o
    /\ result' = res
    /\ handler' = h
    /\ events' = ev
    /\ dirs' = fs.dirs
    /\ files' = fs.files
    /\ pre' = [dirs |-> dirs, files |-> files]
    /\ prev' = [opts |-> opts, result |-> result, pre |-> pre]
    /\ calls' = calls + 1
    /\ UNCHANGED <<noWrite, home>>

Here == FsResult(dirs, files, Nil)

\* A step of a call that the environment sees: an HTTP request or an
\* external process, with what came of it.
Event(op, args, outcome, output) ==
    [op |-> op, args |-> args, outcome |-> outcome, output |-> output]

(***************************************************************************)
(* internal/git Clone, and the git tool it starts.                         *)
(***************************************************************************)
Digits == <<"0", "1", "2", "3", "4", "5", "6", "7", "8", "9">>

\* fmt.Sprintf("%d", n)
RECURSIVE Itoa(_)
Itoa(n) ==
    IF n < 0 THEN <<"-">> \o Itoa(0 - n)
    ELSE IF n < 10 THEN <<Digits[n + 1]>>
    ELSE Itoa(n \div 10) \o <<Digits[(n % 10) + 1]>>

StrClone == <<"c", "l", "o", "n", "e">>

StrDepthFlag == <<"-", "-", "d", "e", "p", "t", "h">>

\* The argument list with the depth flag passed for every depth but 0.
CloneArgsDepthNonZero(co) ==
    <<StrClone>>
        \o (IF co.Depth # 0 THEN <<StrDepthFlag, Itoa(co.Depth)>> ELSE <<>>)
        \o (IF co.TargetDir # <<>> THEN <<co.URL, co.TargetDir>> ELSE <<co.URL>>)

\* The argument list Clone builds for exec.Command("git", args...).
CloneArgs(co) ==
    <<StrClone>>
        \o (IF co.Depth > 0 THEN <<StrDepthFlag, Itoa(co.Depth)>> ELSE <<>>)
        \o (IF co.TargetDir # <<>> THEN <<co.URL, co.TargetDir>> ELSE <<co.URL>>)

\* What git prints; the text is the environment's.
GitOutputs == {"fatal: repository not found", "fatal: destination path already exists"}

\* git clone can only succeed into a destination that is absent or an empty
\* directory, below a directory it may write to.
CanClone(t) ==
    /\ t \notin DOMAIN files
    /\ t \in dirs => Children(dirs, files, t) = {}
    /\ t \notin dirs => Parent(t) \in dirs /\ Parent(t) \notin noWrite

\* The filesystem after a clone that exited zero: the destination is a
\* repository.
Cloned(t) ==
    CHOOSE r \in {MkdirAll(a.dirs, a.files, Join(t, DotGit)) :
                  a \in {MkdirAll(dirs, files, t)}} : TRUE

\* The Result of handleGitURL when git.Clone returned err.
CloneFailedResult(err) ==
    ResultError(ErrorfW("failed to clone repository: ", err, <<>>))

\* A handler that also reports a created directory when it has cloned.
ClonedResultAlsoCreated(absPath) == Result(absPath, TRUE, TRUE, FALSE, Nil)

\* The Result of handleGitURL when the clone succeeded into absPath.
ClonedResult(absPath) == Result(absPath, FALSE, TRUE, FALSE, Nil)

\* The outcome of a call of Clone: the error returned, the filesystem it
\* leaves and the processes it started.
CloneOutcome(err, fs, ev) == [err |-> err, fs |-> fs, events |-> ev]

\* Where git clone puts the repository: the target directory, or without
\* one the name git derives from the URL.
CloneDir(co) == Abs(IF co.TargetDir # <<>> THEN co.TargetDir ELSE GetRepoName(co.URL))

\* The outcomes of starting git with the arguments of co.
RunGit(co) ==
    (IF CanClone(CloneDir(co))
     THEN {CloneOutcome(Nil, Cloned(CloneDir(co)),
                        <<Event("exec git", CloneArgs(co), "exit 0", "")>>)}
     ELSE {})
    \cup {CloneOutcome(ErrorfW("", GitErrCloneFailed, <<": ", out>>), Here,
                       <<Event("exec git", CloneArgs(co), "exit 1", out)>>) :
             out \in GitOutputs}

\* Clone that runs git once more when git has failed.
CloneRetrying(co) ==
    IF ~IsValidURL(co.URL) THEN {CloneOutcome(GitErrInvalidURL, Here, <<>>)}
    ELSE {c \in RunGit(co) : c.err = Nil}
         \cup {CloneOutcome(c2.err, c2.fs, c1.events \o c2.events) :
                  c1 \in {c \in RunGit(co) : c.err # Nil}, c2 \in RunGit(co)}

\* Clone without the validation of the URL.
CloneUnvalidated(co) == RunGit(co)

\* git.Clone: the set of its possible outcomes, by what the git tool does.
Clone(co) ==
    IF ~IsValidURL(co.URL) THEN {CloneOutcome(GitErrInvalidURL, Here, <<>>)}
    ELSE RunGit(co)

handleGitURL(o) ==
    LET name == GetRepoName(o.Path)
        targetDir == IF name = <<>> THEN Base(o.Path) ELSE name
        co == [URL |-> o.Path, TargetDir |-> targetDir, Depth |-> o.GitCloneDepth]
    IN  \E c \in Clone(co) :
            IF c.err # Nil
            THEN Return(o, "handleGitURL", CloneFailedResult(c.err), c.fs, c.events)
            ELSE Return(o, "handleGitURL", ClonedResult(Abs(targetDir)), c.fs, c.events)

(***************************************************************************)
(* The environment of the archive handlers: the HTTP server's answers and  *)
(* the archives it serves.                                                 *)
(***************************************************************************)
HttpStatusOK == 200

\* What http.Get and the copy of the body can come to: a transport error, a
\* response with a status, or a status 200 whose body cannot be read to its
\* end.  Go's client refuses every scheme but http and https.
HttpOutcomes(url) ==
    IF HasPrefix(url, HttpScheme) \/ HasPrefix(url, HttpsScheme)
    THEN {"transport error", "200", "200 broken body", "204", "404"}
    ELSE {"transport error"}

StatusCode(outcome) ==
    CASE outcome = "200" -> 200
      [] outcome = "200 broken body" -> 200
      [] outcome = "204" -> 204
      [] outcome = "404" -> 404

\* A status check that lets every 2xx status pass.
StatusNotOKOutside2xx(code) == code \notin 200..299

\* A status check that refuses the server errors only.
StatusNotOKServerErrors(code) == code >= 500

\* resp.StatusCode != http.StatusOK
StatusNotOK(code) == code # HttpStatusOK

\* A tar archive: whether tar can read it, and the directories and files
\* (names relative to the archive's top) it holds.
TarArchive(valid, ds, fs) == [valid |-> valid, dirs |-> ds, files |-> fs]

TarArchives ==
    { TarArchive(TRUE, {<<"d">>}, (<<"d", "/", "f">> :> "content of f")),
      TarArchive(TRUE, {}, (<<"x">> :> "content of x")),
      TarArchive(TRUE, {<<"e">>, <<"d">>}, (<<"e", "/", "g">> :> "content of g")),
      TarArchive(TRUE, {<<"_", "d">>}, (<<"_", "d", "/", "f">> :> "content of f")),
      TarArchive(FALSE, {}, <<>>) }

\* The filesystem (d, f) with the archive's entries created below dir.
Extracted(d, f, dir, ar) ==
    LET newF == {Join(dir, x) : x \in DOMAIN ar.files}
    IN  FsResult(d \cup {Join(dir, x) : x \in ar.dirs},
                 [y \in DOMAIN f \cup newF |->
                     IF y \in newF
                     THEN ar.files[CHOOSE x \in DOMAIN ar.files : Join(dir, x) = y]
                     ELSE f[y]],
                 Nil)

\* The byte order of the characters that names are made of.
ByteOrder ==
    << "\n", "-", ".", "/", "0", "1", "2", "3", "4", "5", "6", "7", "8", "9", ":", "@",
       "A", "B", "C", "D", "E", "F", "G", "H", "I", "J", "K", "L", "M", "N", "O", "P",
       "Q", "R", "S", "T", "U", "V", "W", "X", "Y", "Z", "_",
       "a", "b", "c", "d", "e", "f", "g", "h", "i", "j", "k", "l", "m", "n", "o", "p",
       "q", "r", "s", "t", "u", "v", "w", "x", "y", "z", "~" >>

Rank(c) == CHOOSE i \in 1..Len(ByteOrder) : ByteOrder[i] = c

\* a sorts before b, or is b: the order os.ReadDir returns names in.
RECURSIVE StrLeq(_, _)
StrLeq(a, b) ==
    IF a = <<>> THEN TRUE
    ELSE IF b = <<>> THEN FALSE
    ELSE IF Head(a) = Head(b) THEN StrLeq(Tail(a), Tail(b))
    ELSE Rank(Head(a)) < Rank(Head(b))

\* The first directory os.ReadDir(dir) lists, <<>> when it lists none.
FirstDirIn(d, f, dir) ==
    LET names == {Base(x) : x \in Children(d, f, dir) \cap d}
    IN  IF names = {} THEN <<>>
        ELSE CHOOSE n \in names : \A m \in names : StrLeq(n, m)

ScratchName == <<"t", "a", "k", "e", "-", "1">>

ArchiveName == <<"a", "r", "c", "h", "i", "v", "e", "-", "1">>

DefaultTarExt == <<".", "t", "a", "r", ".", "g", "z">>

\* The deferred calls without the removal of the scratch directory.
CleanupFileOnly(fs, tmpFile, tmpDir) == Remove(fs.dirs, fs.files, tmpFile)

\* The deferred os.Remove(tmpFile.Name()) and os.RemoveAll(tmpDir), in the
\* order they run.
Cleanup(fs, tmpFile, tmpDir) ==
    CHOOSE r \in {RemoveAll(a.dirs, a.files, tmpDir) :
                  a \in {Remove(fs.dirs, fs.files, tmpFile)}} : TRUE

(***************************************************************************)
(* handleTarballURL                                                        *)
(***************************************************************************)
handleTarballURL(o) ==
    LET h == "handleTarballURL"
        tmpDir == Join(TempDir, ScratchName)
        ext == IF Ext(o.Path) = <<>> THEN DefaultTarExt ELSE Ext(o.Path)
        tmpFile == Join(tmpDir, ArchiveName \o ext)
        get(outcome) == Event("http.Get", <<o.Path>>, outcome, "")
        \* the request whose body tar has unpacked
        got(outcome, body) == Event("http.Get", <<o.Path>>, outcome, body)
        tar(exit) == Event("exec tar", <<<<"x", "f">>, tmpFile, <<"-", "C">>, tmpDir>>, exit, "")
    IN  \/ \* os.MkdirTemp fails
           Return(o, h, ResultError(OsError("ENOSPC")), Here, <<>>)
        \/ \* os.CreateTemp fails
           \E made \in {Mkdir(dirs, files, tmpDir)} :
               Return(o, h, ResultError(OsError("ENOSPC")),
                      RemoveAll(made.dirs, made.files, tmpDir), <<>>)
        \/ \E outcome \in HttpOutcomes(o.Path) :
           \E made \in {Mkdir(dirs, files, tmpDir)} :
           \E created \in {WriteFile(made.dirs, made.files, tmpFile, "")} :
               IF outcome = "transport error"
               THEN Return(o, h, ResultError(ErrDownloadFailed),
                           Cleanup(created, tmpFile, tmpDir), <<get(outcome)>>)
               ELSE IF StatusNotOK(StatusCode(outcome))
               THEN Return(o, h, ResultError(ErrDownloadFailed),
                           Cleanup(created, tmpFile, tmpDir), <<get(outcome)>>)
               ELSE IF outcome = "200 broken body"
               THEN Return(o, h, ResultError(ErrDownloadFailed),
                           Cleanup(created, tmpFile, tmpDir), <<get(outcome)>>)
               ELSE \E ar \in TarArchives, exit \in {0, 1} :
                    \E copied \in {WriteFile(created.dirs, created.files, tmpFile,
                                             "archive bytes")} :
                        IF ~ar.valid \/ exit # 0
                        THEN Return(o, h,
                                    ResultError(ErrorfV("tar extraction failed: ",
                                                        <<"exit status 1">>)),
                                    Cleanup(copied, tmpFile, tmpDir),
                                    <<get(outcome), tar("exit 1")>>)
                        ELSE \E ex \in {Extracted(copied.dirs, copied.files, tmpDir, ar)} :
                             \E extractedDir \in {FirstDirIn(ex.dirs, ex.files, tmpDir)} :
                                 IF extractedDir = <<>>
                                 THEN Return(o, h,
                                             ResultError(ErrorfV("no directory found in archive",
                                                                 <<>>)),
                                             Cleanup(ex, tmpFile, tmpDir), <<got(outcome, ar), tar("exit 0")>>)
                                 ELSE \E finalPath \in {Join(Dot, extractedDir)}, xdev \in BOOLEAN :
                                      \E moved \in {Rename(ex.dirs, ex.files,
                                                           Join(tmpDir, extractedDir),
                                                           Abs(finalPath), xdev)} :
                                          IF moved.err # Nil
                                          THEN Return(o, h, ResultError(moved.err),
                                                      Cleanup(moved, tmpFile, tmpDir),
                                                      <<got(outcome, ar), tar("exit 0")>>)
                                          ELSE Return(o, h,
                                                      Result(Abs(finalPath), FALSE, FALSE,
                                                             TRUE, Nil),
                                                      Cleanup(moved, tmpFile, tmpDir),
                                                      <<got(outcome, ar), tar("exit 0")>>)

(***************************************************************************)
(* handleZipURL                                                            *)
(***************************************************************************)
\* A zip archive: whether zip.OpenReader can read it, and its entries in
\* the order of the central directory.  An entry whose name ends in "/" is
\* a directory.
ZipEntry(name, data) == [Name |-> name, data |-> data]

ZipArchive(valid, entries) == [valid |-> valid, File |-> entries]

EntryIsDir(e) == HasSuffix(e.Name, Slash)

ZipArchives ==
    { ZipArchive(TRUE, <<ZipEntry(<<"d", "/">>, ""), ZipEntry(<<"d", "/", "f">>, "content of f")>>),
      ZipArchive(TRUE, <<ZipEntry(<<"x">>, "content of x")>>),
      ZipArchive(TRUE, <<ZipEntry(<<"_", "d", "/">>, ""),
                         ZipEntry(<<"_", "d", "/", "f">>, "content of f")>>),
      ZipArchive(TRUE, <<ZipEntry(<<"d", "/", "f">>, "content of f"),
                         ZipEntry(<<"e", "/", "g">>, "content of g")>>),
      ZipArchive(TRUE, <<ZipEntry(<<".", ".", "/", "y">>, "content of y")>>),
      ZipArchive(TRUE, <<ZipEntry(<<"d">>, "content of d"),
                         ZipEntry(<<"d", "/", "f">>, "content of f")>>),
      ZipArchive(FALSE, <<>>) }

\* The loop "Find the root directory in the zip", from entry i on, with the
\* rootDir found so far.
RECURSIVE ZipRoot(_, _, _)
ZipRoot(entries, i, rootDir) ==
    IF i > Len(entries) THEN rootDir
    ELSE LET name == entries[i].Name
             parts == Split(name, "/")
         IN  IF HasPrefix(parts[1], Dot) \/ HasPrefix(parts[1], <<"_">>)
             THEN ZipRoot(entries, i + 1, rootDir)
             ELSE IF rootDir = <<>> THEN ZipRoot(entries, i + 1, parts[1])
             ELSE IF parts[1] # rootDir /\ rootDir # Dir(name) THEN <<>>
             ELSE ZipRoot(entries, i + 1, rootDir)

\* The root name the handler goes on with: the one found, or else the base
\* name of the URL without ".zip".
ZipRootName(path, entries) ==
    IF ZipRoot(entries, 1, <<>>) = <<>> THEN TrimSuffix(Base(path), DotZip)
    ELSE ZipRoot(entries, 1, <<>>)

\* The loop "Extract files", from entry i on: it stops at the first error.
RECURSIVE ZipExtract(_, _, _, _, _)
ZipExtract(d, f, tmpDir, entries, i) ==
    IF i > Len(entries) THEN FsResult(d, f, Nil)
    ELSE CHOOSE r \in
            { IF EntryIsDir(entries[i])
              THEN IF a.err # Nil
                   THEN FsResult(a.dirs, a.files,
                                 ErrorfV("failed to create directory: ", a.err.msg))
                   ELSE ZipExtract(a.dirs, a.files, tmpDir, entries, i + 1)
              ELSE IF a.err # Nil
                   THEN FsResult(a.dirs, a.files,
                                 ErrorfV("failed to create parent directory: ", a.err.msg))
                   ELSE CHOOSE w \in
                           { IF b.err # Nil
                             THEN FsResult(b.dirs, b.files,
                                           ErrorfV("failed to create file: ", b.err.msg))
                             ELSE ZipExtract(b.dirs, b.files, tmpDir, entries, i + 1) :
                             b \in {WriteFile(a.dirs, a.files,
                                              Join(tmpDir, entries[i].Name),
                                              entries[i].data)} } : TRUE :
              a \in {IF EntryIsDir(entries[i])
                     THEN MkdirAll(d, f, Join(tmpDir, entries[i].Name))
                     ELSE MkdirAll(d, f, Dir(Join(tmpDir, entries[i].Name)))} } : TRUE

\* The removal of the destination left out.
RemoveAllPathSkipped(d, f, path) == FsResult(d, f, Nil)

\* os.RemoveAll refuses a path that ends in ".".
RemoveAllPath(d, f, path) ==
    IF path = Dot THEN FsResult(d, f, OsError("EINVAL")) ELSE RemoveAll(d, f, Abs(path))

handleZipURL(o) ==
    LET h == "handleZipURL"
        tmpDir == Join(TempDir, ScratchName)
        tmpFile == Join(tmpDir, ArchiveName \o DotZip)
        get(outcome) == Event("http.Get", <<o.Path>>, outcome, "")
        got(outcome, body) == Event("http.Get", <<o.Path>>, outcome, body)
        \* the two steps of the final move, in the order they are taken
        rm(path, r) == Event("os.RemoveAll", <<path>>, IF r.err = Nil THEN "ok" ELSE "error", "")
        mv(path, r) == Event("os.Rename", <<path>>, IF r.err = Nil THEN "ok" ELSE "error", "")
    IN  \/ \* os.MkdirTemp fails
           Return(o, h, ResultError(OsError("ENOSPC")), Here, <<>>)
        \/ \* os.CreateTemp fails
           \E made \in {Mkdir(dirs, files, tmpDir)} :
               Return(o, h, ResultError(OsError("ENOSPC")),
                      RemoveAll(made.dirs, made.files, tmpDir), <<>>)
        \/ \E outcome \in HttpOutcomes(o.Path) :
           \E made \in {Mkdir(dirs, files, tmpDir)} :
           \E created \in {WriteFile(made.dirs, made.files, tmpFile, "")} :
               IF outcome = "transport error"
               THEN Return(o, h, ResultError(ErrDownloadFailed),
                           Cleanup(created, tmpFile, tmpDir), <<get(outcome)>>)
               ELSE IF StatusNotOK(StatusCode(outcome))
               THEN Return(o, h, ResultError(ErrDownloadFailed),
                           Cleanup(created, tmpFile, tmpDir), <<get(outcome)>>)
               ELSE IF outcome = "200 broken body"
               THEN Return(o, h, ResultError(ErrDownloadFailed),
                           Cleanup(created, tmpFile, tmpDir), <<get(outcome)>>)
               ELSE \E ar \in ZipArchives :
                    \E copied \in {WriteFile(created.dirs, created.files, tmpFile,
                                             "archive bytes")} :
                        IF ~ar.valid
                        THEN Return(o, h,
                                    ResultError(ErrorfV("failed to open zip: ",
                                                        <<"zip: not a valid zip file">>)),
                                    Cleanup(copied, tmpFile, tmpDir), <<got(outcome, ar)>>)
                        ELSE \E found \in {ZipRoot(ar.File, 1, <<>>)} :
                             \E rootDir \in {ZipRootName(o.Path, ar.File)} :
                             \E rooted \in {IF found = <<>>
                                            THEN MkdirAll(copied.dirs, copied.files,
                                                          Join(tmpDir, rootDir))
                                            ELSE copied} :
                                 IF rooted.err # Nil
                                 THEN Return(o, h,
                                             ResultError(ErrorfV("failed to create root directory: ",
                                                                 rooted.err.msg)),
                                             Cleanup(rooted, tmpFile, tmpDir), <<got(outcome, ar)>>)
                                 ELSE \E ex \in {ZipExtract(rooted.dirs, rooted.files, tmpDir,
                                                            ar.File, 1)} :
                                          IF ex.err # Nil
                                          THEN Return(o, h, ResultError(ex.err),
                                                      Cleanup(ex, tmpFile, tmpDir), <<got(outcome, ar)>>)
                                          ELSE \E finalPath \in {Join(Dot, rootDir)},
                                                  xdev \in BOOLEAN :
                                               \E cleared \in {RemoveAllPath(ex.dirs, ex.files,
                                                                             finalPath)} :
                                               \E moved \in {Rename(cleared.dirs, cleared.files,
                                                                    Join(tmpDir, rootDir),
                                                                    Abs(finalPath), xdev)} :
                                                   IF moved.err # Nil
                                                   THEN Return(o, h,
                                                               ResultError(ErrorfV("failed to move directory: ",
                                                                                   moved.err.msg)),
                                                               Cleanup(moved, tmpFile, tmpDir),
                                                               <<got(outcome, ar),
                                                                 rm(Abs(finalPath), cleared),
                                                                 mv(Abs(finalPath), moved)>>)
                                                   ELSE Return(o, h,
                                                               Result(Abs(finalPath), FALSE,
                                                                      FALSE, TRUE, Nil),
                                                               Cleanup(moved, tmpFile, tmpDir),
                                                               <<got(outcome, ar),
                                                                 rm(Abs(finalPath), cleared),
                                                                 mv(Abs(finalPath), moved)>>)

(***************************************************************************)
(* expandPath and Take                                                     *)
(***************************************************************************)
\* expandPath that leaves a relative path as it was given.
expandPathNoClean(path) ==
    IF path = <<>> THEN [path |-> <<>>, err |-> ErrInvalidPath]
    ELSE IF HasPrefix(path, <<"~">>) /\ home = <<>>
    THEN [path |-> <<>>, err |-> Sentinel("os.UserHomeDir", "$HOME is not defined")]
    ELSE [path |-> IF HasPrefix(path, <<"~">>)
                   THEN Join(home, SubSeq(path, 2, Len(path)))
                   ELSE path,
          err |-> Nil]

\* expandPath returns (path, error).
expandPath(path) ==
    IF path = <<>> THEN [path |-> <<>>, err |-> ErrInvalidPath]
    ELSE IF HasPrefix(path, <<"~">>) /\ home = <<>>
    THEN [path |-> <<>>, err |-> Sentinel("os.UserHomeDir", "$HOME is not defined")]
    ELSE LET expanded == IF HasPrefix(path, <<"~">>)
                         THEN Join(home, SubSeq(path, 2, Len(path)))
                         ELSE path
         IN  [path |-> IF IsAbs(expanded) THEN expanded ELSE Clean(expanded), err |-> Nil]

SchemeSep == <<":", "/", "/">>

At == <<"@">>

\* The local-directory branch with os.Mkdir in the place of os.MkdirAll.
TakeLocalMkdir(o) ==
    \E e \in {expandPath(o.Path)} :
        IF e.err # Nil THEN Return(o, "", ResultError(e.err), Here, <<>>)
        ELSE \E made \in {Mkdir(dirs, files, Abs(e.path))} :
                 IF made.err # Nil
                 THEN IF IsPermission(made.err)
                      THEN Return(o, "", ResultError(ErrPermissionDenied), made, <<>>)
                      ELSE Return(o, "", ResultError(made.err), made, <<>>)
                 ELSE Return(o, "", Result(Abs(e.path), TRUE, FALSE, FALSE, Nil),
                             made, <<>>)

\* The local-directory branch of Take.
TakeLocal(o) ==
    \E e \in {expandPath(o.Path)} :
        IF e.err # Nil THEN Return(o, "", ResultError(e.err), Here, <<>>)
        ELSE \E made \in {MkdirAll(dirs, files, Abs(e.path))} :
                 IF made.err # Nil
                 THEN IF IsPermission(made.err)
                      THEN Return(o, "", ResultError(ErrPermissionDenied), made, <<>>)
                      ELSE Return(o, "", ResultError(made.err), made, <<>>)
                 ELSE Return(o, "", Result(Abs(e.path), TRUE, FALSE, FALSE, Nil),
                             made, <<>>)

\* Take without its input validation, creating the directory as the unused
\* handleDirectory does: filepath.Abs("") is the working directory.
TakeUnvalidated(o) ==
    IF o.Path = <<>>
    THEN Return(o, "", Result(Abs(o.Path), TRUE, FALSE, FALSE, Nil), Here, <<>>)
    ELSE IF Contains(o.Path, SchemeSep) \/ Contains(o.Path, At) \/ IsGitRepo(o.Path)
    THEN IF IsGitRepo(o.Path) \/ MatchGit(o.Path) THEN handleGitURL(o)
         ELSE IF MatchTarball(o.Path) THEN handleTarballURL(o)
         ELSE IF MatchZip(o.Path) THEN handleZipURL(o)
         ELSE Return(o, "", ResultError(ErrInvalidURL), Here, <<>>)
    ELSE TakeLocal(o)

\* Take whose switch has no default case: what matches no pattern falls
\* through to the local-directory branch.
TakeNoDefault(o) ==
    IF o.Path = <<>> THEN Return(o, "", ResultError(ErrInvalidPath), Here, <<>>)
    ELSE IF (Contains(o.Path, SchemeSep) \/ Contains(o.Path, At) \/ IsGitRepo(o.Path))
            /\ (IsGitRepo(o.Path) \/ MatchGit(o.Path) \/ MatchTarball(o.Path)
                  \/ MatchZip(o.Path))
    THEN IF IsGitRepo(o.Path) \/ MatchGit(o.Path) THEN handleGitURL(o)
         ELSE IF MatchTarball(o.Path) THEN handleTarballURL(o)
         ELSE handleZipURL(o)
    ELSE TakeLocal(o)

\* Take that without Force refuses a path that is a directory already.
TakeUnlessExists(o) ==
    IF o.Path = <<>> THEN Return(o, "", ResultError(ErrInvalidPath), Here, <<>>)
    ELSE IF ~o.Force /\ Abs(o.Path) \in dirs
    THEN Return(o, "", ResultError(ErrInvalidPath), Here, <<>>)
    ELSE IF Contains(o.Path, SchemeSep) \/ Contains(o.Path, At) \/ IsGitRepo(o.Path)
    THEN IF IsGitRepo(o.Path) \/ MatchGit(o.Path) THEN handleGitURL(o)
         ELSE IF MatchTarball(o.Path) THEN handleTarballURL(o)
         ELSE IF MatchZip(o.Path) THEN handleZipURL(o)
         ELSE Return(o, "", ResultError(ErrInvalidURL), Here, <<>>)
    ELSE TakeLocal(o)

Take(o) ==
    IF o.Path = <<>> THEN Return(o, "", ResultError(ErrInvalidPath), Here, <<>>)
    ELSE IF Contains(o.Path, SchemeSep) \/ Contains(o.Path, At) \/ IsGitRepo(o.Path)
    THEN IF IsGitRepo(o.Path) \/ MatchGit(o.Path) THEN handleGitURL(o)
         ELSE IF MatchTarball(o.Path) THEN handleTarballURL(o)
         ELSE IF MatchZip(o.Path) THEN handleZipURL(o)
         ELSE Return(o, "", ResultError(ErrInvalidURL), Here, <<>>)
    ELSE TakeLocal(o)

(***************************************************************************)
(* The inputs and the initial filesystems.                                 *)
(***************************************************************************)
P_empty == <<>>

P_a == <<"a">>

P_a_b == <<"a", "/", "b">>

P_dot_a == <<".", "/", "a">>

P_home_s == <<"~", "/", "s">>

P_abs == <<"/", "w", "/", "d">>

P_r == <<"r">>

P_n_c == <<"n", "/", "c">>

P_f_c == <<"f", "/", "c">>

P_at == <<"a", "@", "b">>

P_xyz == <<"h", "t", "t", "p", "s", ":", "/", "/", "h", "/", "x", ".", "x", "y", "z">>

P_https_git == <<"h", "t", "t", "p", "s", ":", "/", "/", "h", "/", "r", ".", "g", "i", "t">>

P_ssh_git == <<"g", "i", "t", "@", "h", ":", "o", "/", "r", ".", "g", "i", "t">>

P_http_git == <<"h", "t", "t", "p", ":", "/", "/", "h", "/", "r", ".", "g", "i", "t">>

P_https_git_slash ==
    <<"h", "t", "t", "p", "s", ":", "/", "/", "h", "/", "r", ".", "g", "i", "t", "/">>

P_user_git == <<"u", "@", "h", ":", "r", ".", "g", "i", "t">>

P_tgz == <<"h", "t", "t", "p", "s", ":", "/", "/", "h", "/", "d", ".", "t", "g", "z">>

P_targz ==
    <<"h", "t", "t", "p", ":", "/", "/", "h", "/", "d", ".", "t", "a", "r", ".", "g", "z">>

P_zip == <<"h", "t", "t", "p", "s", ":", "/", "/", "h", "/", "z", ".", "z", "i", "p">>

P_ftp_zip == <<"f", "t", "p", ":", "/", "/", "h", "/", "z", ".", "z", "i", "p">>

P_noscheme_zip == <<"h", "t", "t", "p", "x", "@", "h", "/", "z", ".", "z", "i", "p">>

P_noscheme_tgz == <<"f", "t", "p", "d", "@", "h", "/", "d", ".", "t", "g", "z">>

Paths ==
    { P_empty, P_a, P_a_b, P_dot_a, P_home_s, P_abs, P_r, P_n_c, P_f_c, P_at, P_xyz,
      P_https_git, P_ssh_git, P_http_git, P_https_git_slash, P_user_git, P_tgz, P_targz,
      P_zip, P_ftp_zip, P_noscheme_zip, P_noscheme_tgz }

Depths == {0, 1}

OptionsSet == [Path : Paths, GitCloneDepth : Depths, Force : BOOLEAN]

HomeDir == <<"/", "h">>

BaseDirs == {Slash, Cwd, HomeDir, TempDir}

\* What the working directory may hold at the start: a git repository r, a
\* directory named a@b, a .git directory in it, a directory n that denies
\* writes and a regular file f, a directory d that holds a file.
RepoR == [dirs |-> {<<"/", "w", "/", "r">>, <<"/", "w", "/", "r", "/", ".", "g", "i", "t">>},
          files |-> {}, noWrite |-> {}]

DirAt == [dirs |-> {<<"/", "w", "/", "a", "@", "b">>}, files |-> {}, noWrite |-> {}]

RepoAt == [dirs |-> {<<"/", "w", "/", "a", "@", "b">>,
                     <<"/", "w", "/", "a", "@", "b", "/", ".", "g", "i", "t">>},
           files |-> {}, noWrite |-> {}]

DeniedN == [dirs |-> {<<"/", "w", "/", "n">>}, files |-> {<<"/", "w", "/", "f">>},
            noWrite |-> {<<"/", "w", "/", "n">>}]

ExistingD == [dirs |-> {<<"/", "w", "/", "d">>},
              files |-> {<<"/", "w", "/", "d", "/", "o", "l", "d">>}, noWrite |-> {}]

Bundles == {RepoR, DirAt, RepoAt, DeniedN, ExistingD}

\* The initial contents of the working directory: nothing, one of the
\* bundles, or all of them together.
Layouts == {{}} \cup {{b} : b \in Bundles} \cup {Bundles}

\* $HOME is set; the program is also run without it, in an empty working
\* directory.
Homes(chosen) == {HomeDir} \cup (IF chosen = {} THEN {<<>>} ELSE {})

ZeroOptions == [Path |-> <<>>, GitCloneDepth |-> 0, Force |-> FALSE]

ZeroResult == ResultError(Nil)

\* A command line as package flag sees it: whether the flags parse, their
\* values, and the positional arguments left over.
Invocation(parse, depth, force, showVersion, args) ==
    [parse |-> parse, depth |-> depth, force |-> force, showVersion |-> showVersion,
     args |-> args]

\* The command-line process before main has run.
NotStarted ==
    [exited |-> FALSE, code |-> 0, stdout |-> <<>>, stderr |-> <<>>,
     inv |-> Invocation("ok", 0, FALSE, FALSE, <<>>)]

\* No helper function has been called directly.
NoCall == [fn |-> "", args |-> <<>>, value |-> <<>>]

Init ==
    \E chosen \in Layouts : \E h \in Homes(chosen) :
        /\ dirs = BaseDirs \cup UNION {b.dirs : b \in chosen}
        /\ files = [x \in UNION {b.files : b \in chosen} |-> "old content"]
        /\ noWrite = UNION {b.noWrite : b \in chosen}
        /\ home = h
        /\ opts = ZeroOptions
        /\ result = ZeroResult
        /\ handler = ""
        /\ events = <<>>
        /\ pre = [dirs |-> dirs, files |-> files]
        /\ prev = [opts |-> ZeroOptions, result |-> ZeroResult,
                   pre |-> [dirs |-> dirs, files |-> files]]
        /\ calls = 0
        /\ proc = NotStarted
        /\ ret = NoCall

\* A run is one invocation of the program on one of the initial
\* filesystems, and then the same invocation again: the program holds no
\* state between calls but the filesystem.
TakeFirst == calls = 0 /\ UNCHANGED <<proc, ret>> /\ \E o \in OptionsSet : Take(o)

TakeAgain == calls > 0 /\ calls < MaxCalls /\ UNCHANGED <<proc, ret>> /\ Take(opts)

Next == TakeFirst \/ TakeAgain

Spec == Init /\ [][Next]_vars

(***************************************************************************)
(* The command-line program: main parses the flags, calls Take once and    *)
(* exits.                                                                  *)
(***************************************************************************)
Exited(inv, code, out, err) ==
    [exited |-> TRUE, code |-> code, stdout |-> out, stderr |-> err, inv |-> inv]

VersionLine == "take version dev (none) built on unknown"

UsageLine == "Usage: take [-depth N] [-force] <directory|git-url>"

\* The values of -depth the model runs main with.
MainDepths == {0 - 1, 0, 1, 12}

\* The positional arguments: none, one path, two paths.
MainArgs == {<<>>, <<P_a, P_a_b>>} \cup {<<p>> : p \in Paths}

\* flag.Parse leaves the process on a flag it cannot parse (exit 2) and on
\* -h or -help (exit 0 or 2 by the version of package flag); the flag values
\* are then never read.
Invocations ==
    {Invocation("ok", d, f, v, a) :
        d \in MainDepths, f \in BOOLEAN, v \in BOOLEAN, a \in MainArgs}
    \cup {Invocation(p, 0, FALSE, FALSE, <<>>) : p \in {"bad flag", "help"}}

ExitWithoutTake(inv, code, out, err) ==
    /\ proc' = Exited(inv, code, out, err)
    /\ UNCHANGED <<dirs, files, noWrite, home, opts, result, handler, events, pre, prev,
                   calls>>

\* main without the os.Exit(1) after the error of Take is printed: it goes
\* on to print FinalPath and returns.
mainNoExitOnError(inv) ==
    /\ ~proc.exited
    /\ UNCHANGED ret
    /\ IF inv.parse = "bad flag"
       THEN ExitWithoutTake(inv, 2, <<>>, <<"flag provided but not defined">>)
       ELSE IF inv.parse = "help"
       THEN \E code \in {0, 2} : ExitWithoutTake(inv, code, <<>>, <<"Usage of take:">>)
       ELSE IF inv.showVersion
       THEN ExitWithoutTake(inv, 0, <<VersionLine>>, <<>>)
       ELSE IF Len(inv.args) # 1
       THEN ExitWithoutTake(inv, 1, <<>>, <<UsageLine>>)
       ELSE /\ Take([Path |-> inv.args[1], GitCloneDepth |-> inv.depth,
                     Force |-> inv.force])
            /\ proc' = IF result'.Error # Nil
                       THEN Exited(inv, 0, <<result'.FinalPath>>, <<result'.Error.msg>>)
                       ELSE Exited(inv, 0, <<result'.FinalPath>>, <<>>)

main(inv) ==
    /\ ~proc.exited
    /\ UNCHANGED ret
    /\ IF inv.parse = "bad flag"
       THEN ExitWithoutTake(inv, 2, <<>>, <<"flag provided but not defined">>)
       ELSE IF inv.parse = "help"
       THEN \E code \in {0, 2} : ExitWithoutTake(inv, code, <<>>, <<"Usage of take:">>)
       ELSE IF inv.showVersion
       THEN ExitWithoutTake(inv, 0, <<VersionLine>>, <<>>)
       ELSE IF Len(inv.args) # 1
       THEN ExitWithoutTake(inv, 1, <<>>, <<UsageLine>>)
       ELSE /\ Take([Path |-> inv.args[1], GitCloneDepth |-> inv.depth,
                     Force |-> inv.force])
            /\ proc' = IF result'.Error # Nil
                       THEN Exited(inv, 1, <<>>, <<result'.Error.msg>>)
                       ELSE Exited(inv, 0, <<result'.FinalPath>>, <<>>)

RunMain == \E inv \in Invocations : main(inv)

NextMain == RunMain

SpecMain == Init /\ [][NextMain]_vars

(***************************************************************************)
(* The helper functions called on their own, as their unit tests call      *)
(* them: one call on one of the initial filesystems.                       *)
(***************************************************************************)
Returned(fn, args, value) ==
    /\ ret = NoCall
    /\ ret' = [fn |-> fn, args |-> args, value |-> value]
    /\ UNCHANGED <<dirs, files, noWrite, home, opts, result, handler, events, pre, prev,
                   calls, proc>>

\* Git URLs put together from their parts; repo is the name the URL ends in.
RepoURL(head, host, sep, owner, repo, suffix) ==
    [url |-> head \o host \o sep \o owner \o Slash \o repo \o suffix, repo |-> repo]

RepoNames == {<<"r">>, <<"r", "e", "p", "o">>, <<"m", "y", "-", "a", "w", "e", "s", "o", "m", "e", "-", "r", "e", "p", "o">>, <<"r", ".", "x">>}

RepoOwners == {<<"o">>, <<"o", "/", "p">>, <<"u", "s", "e", "r">>}

SSHRepoURLs ==
    {RepoURL(user \o At, host, <<":">>, owner, repo, suffix) :
        user \in {<<"g", "i", "t">>, <<"u">>}, host \in {<<"h">>, <<"g", "i", "t", "h", "u", "b", ".", "c", "o", "m">>},
        owner \in RepoOwners, repo \in RepoNames, suffix \in {<<>>, DotGit}}

HTTPSRepoURLs ==
    {RepoURL(scheme, host, Slash, owner, repo, suffix) :
        scheme \in {HttpsScheme, HttpScheme}, host \in {<<"g", "i", "t", "h", "u", "b", ".", "c", "o", "m">>, <<"h", ":", "8">>},
        owner \in RepoOwners, repo \in RepoNames, suffix \in {<<>>, DotGit}}

RepoURLs == SSHRepoURLs \cup HTTPSRepoURLs

CallGetRepoName ==
    ret = NoCall /\ \E in \in RepoURLs : Returned("GetRepoName", <<in.url>>, GetRepoName(in.url))

\* The paths expandPath is called with: relative ones with their lexically
\* clean form, absolute ones, and ones under "~" with what follows the home
\* directory in their expansion.
RelativePaths ==
    { [path |-> <<".", "/", "t", "e", "s", "t">>, clean |-> <<"t", "e", "s", "t">>],
      [path |-> <<"t", "e", "s", "t">>, clean |-> <<"t", "e", "s", "t">>],
      [path |-> <<"a", "/", "/", "b">>, clean |-> <<"a", "/", "b">>],
      [path |-> <<"a", "/", ".", "/", "b">>, clean |-> <<"a", "/", "b">>],
      [path |-> <<"a", "/", ".", ".", "/", "b">>, clean |-> <<"b">>],
      [path |-> <<"a", "/", "b", "/">>, clean |-> <<"a", "/", "b">>],
      [path |-> <<".">>, clean |-> <<".">>],
      [path |-> <<".", ".", "/", "a">>, clean |-> <<".", ".", "/", "a">>],
      [path |-> <<"a", "/", ".", ".">>, clean |-> <<".">>] }

AbsolutePaths == {<<"/", "t", "m", "p", "/", "t", "e", "s", "t">>, <<"/", "w", "/", "/", "d", "/">>, <<"/", "a", "/", ".", ".", "/", "b">>, <<"/">>, <<"/", "w", "/", ".", "/", "d">>}

HomePaths ==
    { [path |-> <<"~">>, rest |-> <<>>],
      [path |-> <<"~", "/", "s", "u", "b">>, rest |-> <<"/", "s", "u", "b">>],
      [path |-> <<"~", "/", "t", "e", "s", "t">>, rest |-> <<"/", "t", "e", "s", "t">>],
      [path |-> <<"~", "/", "a", "/", "b">>, rest |-> <<"/", "a", "/", "b">>] }

ExpandInputs ==
    {<<>>} \cup {r.path : r \in RelativePaths} \cup AbsolutePaths
        \cup {r.path : r \in HomePaths}

CallExpandPath ==
    ret = NoCall /\ \E path \in ExpandInputs : Returned("expandPath", <<path>>, expandPath(path))

\* The strings IsValidURL is called with, by kind: an https:// URL ending
\* in ".git", a git@host:path ending in ".git", a filesystem path, the empty
\* string, a URL without the suffix, a git@ string without ":".
ValidityInputs ==
    { [url |-> <<"h", "t", "t", "p", "s", ":", "/", "/", "g", "i", "t", "h", "u", "b", ".", "c", "o", "m", "/", "u", "s", "e", "r", "/", "r", "e", "p", "o", ".", "g", "i", "t">>, kind |-> "https"],
      [url |-> <<"h", "t", "t", "p", "s", ":", "/", "/", "h", "/", "r", ".", "g", "i", "t">>, kind |-> "https"],
      [url |-> <<"g", "i", "t", "@", "g", "i", "t", "h", "u", "b", ".", "c", "o", "m", ":", "u", "s", "e", "r", "/", "r", "e", "p", "o", ".", "g", "i", "t">>, kind |-> "ssh"],
      [url |-> <<"g", "i", "t", "@", "h", ":", "o", "/", "r", ".", "g", "i", "t">>, kind |-> "ssh"],
      [url |-> <<"r">>, kind |-> "path"],
      [url |-> <<"/", "w", "/", "r">>, kind |-> "path"],
      [url |-> <<"/", "w", "/", "d">>, kind |-> "path"],
      [url |-> <<>>, kind |-> "empty"],
      [url |-> <<"h", "t", "t", "p", "s", ":", "/", "/", "g", "i", "t", "h", "u", "b", ".", "c", "o", "m", "/", "u", "s", "e", "r", "/", "r", "e", "p", "o">>, kind |-> "no suffix"],
      [url |-> <<"h", "t", "t", "p", "s", ":", "/", "/", "e", "x", "a", "m", "p", "l", "e", ".", "c", "o", "m", "/", "f", "i", "l", "e", ".", "t", "x", "t">>, kind |-> "no suffix"],
      [url |-> <<"g", "i", "t", "@", "h", ":", "o", "/", "r">>, kind |-> "no suffix"],
      [url |-> <<"g", "i", "t", "@", "g", "i", "t", "h", "u", "b", ".", "c", "o", "m", "/", "u", "s", "e", "r", "/", "r", "e", "p", "o", ".", "g", "i", "t">>, kind |-> "no colon"],
      [url |-> <<"g", "i", "t", "@", "h", ".", "g", "i", "t">>, kind |-> "no colon"] }

CallIsValidURL ==
    ret = NoCall /\ \E in \in ValidityInputs : Returned("IsValidURL", <<in.url>>, IsValidURL(in.url))

\* strings.ReplaceAll(s, old, new) for a one-character old.
RECURSIVE ReplaceAll(_, _, _)
ReplaceAll(s, old, new) ==
    IF s = <<>> THEN <<>>
    ELSE (IF Head(s) = old THEN new ELSE <<Head(s)>>) \o ReplaceAll(Tail(s), old, new)

Quote == "'"

Backslash == "\\"

\* shellQuote on a platform other than Windows.
shellQuote(s) ==
    <<Quote>> \o ReplaceAll(s, Quote, <<Quote, Backslash, Quote, Quote>>) \o <<Quote>>

\* ChangeDir of the shells Zsh and Bash.
ChangeDir(shell, path) == <<"c", "d", " ">> \o shellQuote(path)

\* The shell that reads the command.  Unquoted blanks separate words; the
\* characters of ShellSyntax mean something to the shell unless quoted.
ShellBlanks == {" ", "\t", "\n"}

ShellSyntax == {"|", "&", ";", "<", ">", "(", ")", "$", "*", "?", "[", "#", "~"}

\* The words read so far, the word being read, and whether a character was
\* taken as syntax or a quote was left open.
NoWords == [words |-> <<>>, cur |-> <<>>, inWord |-> FALSE, syntax |-> FALSE, open |-> FALSE]

EndWord(acc) ==
    IF acc.inWord
    THEN [acc EXCEPT !.words = Append(acc.words, acc.cur), !.cur = <<>>, !.inWord = FALSE]
    ELSE acc

Literal(acc, c) == [acc EXCEPT !.cur = Append(acc.cur, c), !.inWord = TRUE]

\* Token recognition of the POSIX shell from character i of text on; mode
\* is "plain", "single" (within single quotes) or "double" (within double
\* quotes).
RECURSIVE ShellParse(_, _, _, _)
ShellParse(text, i, mode, acc) ==
    IF i > Len(text)
    THEN IF mode = "plain" THEN EndWord(acc) ELSE [EndWord(acc) EXCEPT !.open = TRUE]
    ELSE IF mode = "single"
    THEN IF text[i] = Quote THEN ShellParse(text, i + 1, "plain", acc)
         ELSE ShellParse(text, i + 1, "single", Literal(acc, text[i]))
    ELSE IF mode = "double"
    THEN IF text[i] = "\"" THEN ShellParse(text, i + 1, "plain", acc)
         ELSE IF text[i] = Backslash /\ i < Len(text)
                 /\ text[i + 1] \in {"$", "\"", Backslash}
         THEN ShellParse(text, i + 2, "double", Literal(acc, text[i + 1]))
         ELSE IF text[i] = "$"
         THEN ShellParse(text, i + 1, "double", [Literal(acc, text[i]) EXCEPT !.syntax = TRUE])
         ELSE ShellParse(text, i + 1, "double", Literal(acc, text[i]))
    ELSE IF text[i] \in ShellBlanks THEN ShellParse(text, i + 1, "plain", EndWord(acc))
    ELSE IF text[i] = Quote
    THEN ShellParse(text, i + 1, "single", [acc EXCEPT !.inWord = TRUE])
    ELSE IF text[i] = "\""
    THEN ShellParse(text, i + 1, "double", [acc EXCEPT !.inWord = TRUE])
    ELSE IF text[i] = Backslash
    THEN IF i < Len(text)
         THEN ShellParse(text, i + 2, "plain", Literal(acc, text[i + 1]))
         ELSE [EndWord(acc) EXCEPT !.open = TRUE]
    ELSE IF text[i] \in ShellSyntax
    THEN ShellParse(text, i + 1, "plain", [Literal(acc, text[i]) EXCEPT !.syntax = TRUE])
    ELSE ShellParse(text, i + 1, "plain", Literal(acc, text[i]))

ShellWords(text) == ShellParse(text, 1, "plain", NoWords)

\* Where the cd builtin goes for its operand: "-" stands for the previous
\* working directory ($OLDPWD).  None of the paths below begins with "-"
\* otherwise.
CdBuiltin(operand) ==
    IF operand = <<"-">> THEN [kind |-> "previous directory", path |-> <<>>]
    ELSE [kind |-> "directory", path |-> operand]

\* The strings that are quoted: those of the tests, the directory named
\* "-", and every text of up to MaxQuoted characters that matter to a shell.
MaxQuoted == 3

QuotedAlphabet == {"a", "/", " ", Quote, Backslash, "$", "\""}

RECURSIVE Texts(_)
Texts(n) ==
    IF n = 0 THEN {<<>>}
    ELSE Texts(n - 1) \cup {Append(t, c) : t \in Texts(n - 1), c \in QuotedAlphabet}

QuotedStrings ==
    Texts(MaxQuoted)
    \cup {<<"/", "p", "a", "t", "h", "/", "t", "o", "/", "d", "i", "r">>,
          <<"/", "p", "a", "t", "h", "/", "t", "o", "/", "m", "y", " ", "d", "i", "r">>,
          <<"/", "p", "a", "t", "h", "/", "t", "o", "/", "O", "'", "N", "e", "i", "l">>,
          <<"-">>}

CallShellQuote ==
    ret = NoCall /\ \E s \in QuotedStrings : Returned("shellQuote", <<s>>, shellQuote(s))

CallChangeDir ==
    /\ ret = NoCall
    /\ \E shell \in {"zsh", "bash"}, path \in QuotedStrings \ {<<>>} :
           Returned("ChangeDir", <<shell, path>>, ChangeDir(shell, path))

\* The entry names of the archives whose root is looked for; every order
\* of each set is an archive.
ZipNameSets ==
    { {},
      {<<"x">>},
      {<<"d", "/">>, <<"d", "/", "f">>},
      {<<"d", "/", "f">>, <<"e", "/", "g">>},
      {<<"d", "/", "f">>, <<"/", "y">>},
      {<<"d", "/", "f">>, <<"_", "d", "/", "f">>, <<".", "x">>},
      {<<"d", "/", "f">>, <<"x">>, <<"/", "y">>},
      {<<"_", "d", "/", "f">>, <<".", "x">>} }

Orderings(names) ==
    {[i \in 1..Cardinality(names) |-> ZipEntry(s[i], "")] :
        s \in {t \in [1..Cardinality(names) -> names] :
                  \A i, j \in 1..Cardinality(names) : t[i] = t[j] => i = j}}

\* The root detection of the zip handler on an archive fetched from P_zip.
CallZipRootName ==
    /\ ret = NoCall
    /\ \E names \in ZipNameSets : \E entries \in Orderings(names) :
           Returned("ZipRootName", <<P_zip, entries>>, ZipRootName(P_zip, entries))

\* The options Clone is called with: URLs that IsValidURL accepts and
\* rejects, a target directory that is new, one that exists with a file in
\* it, or none.
CloneInputs ==
    {[URL |-> u, TargetDir |-> t, Depth |-> n] :
        u \in {<<"n", "o", "t", "-", "a", "-", "g", "i", "t", "-", "u", "r", "l">>, P_r, P_http_git, P_user_git,
               P_https_git, P_ssh_git},
        t \in {<<"c">>, <<"d">>, <<>>}, n \in Depths}

\* A direct call of Clone: it also leaves its filesystem and its processes.
CallClone ==
    ret = NoCall /\
    \E co \in CloneInputs : \E c \in Clone(co) :
        /\ ret = NoCall
        /\ ret' = [fn |-> "Clone", args |-> <<co>>, value |-> c.err]
        /\ dirs' = c.fs.dirs
        /\ files' = c.fs.files
        /\ events' = c.events
        /\ UNCHANGED <<noWrite, home, opts, result, handler, pre, prev, calls, proc>>

NextHelpers == CallGetRepoName \/ CallExpandPath \/ CallIsValidURL \/ CallClone
                  \/ CallZipRootName \/ CallShellQuote \/ CallChangeDir

SpecHelpers == Init /\ [][NextHelpers]_vars

(***************************************************************************)
(* Two calls of Take from the same filesystem, with Options that differ   *)
(* in Force only.                                                          *)
(***************************************************************************)
\* What a call of Take has left: its Result, the filesystem and the steps
\* the environment saw.
Outcome == [result |-> result, dirs |-> dirs, files |-> files, events |-> events]

\* The first call is over: its outcome is kept and the filesystem is put
\* back as it was when the call began.
Rewind ==
    /\ calls = 1
    /\ ret = NoCall
    /\ ret' = [fn |-> "Take", args |-> <<opts>>, value |-> Outcome]
    /\ dirs' = pre.dirs
    /\ files' = pre.files
    /\ UNCHANGED <<noWrite, home, opts, result, handler, events, pre, prev, calls, proc>>

\* The second call: the Options of the first with Force the other way.
TakeFlipped ==
    /\ calls = 1
    /\ ret # NoCall
    /\ UNCHANGED <<proc, ret>>
    /\ Take([opts EXCEPT !.Force = ~opts.Force])

NextForce == TakeFirst \/ Rewind \/ TakeFlipped

SpecForce == Init /\ [][NextForce]_vars

(***************************************************************************)
(* Properties of Take.  Each speaks of the last call: opts, result,        *)
(* handler and events, the filesystem before it (pre) and after it.        *)
(***************************************************************************)
Called == calls > 0

FlagCount ==
    Cardinality({k \in {"WasCreated", "WasCloned", "WasDownloaded"} : result[k]})

\* The directory a local path names once a leading ~ is expanded.
Target(p) == Abs(expandPath(p).path)

HomeResolves(p) == HasPrefix(p, <<"~">>) => home # <<>>

\* The clean absolute path p and the directories above it, the root left out.
Ancestors(p) == {p} \cup {SubSeq(p, 1, i - 1) : i \in {j \in 2..Len(p) : p[j] = "/"}}

\* The OS lets the directory p and its missing parents be created in (d, f):
\* nothing on the way is a regular file and every missing directory would be
\* made in a directory that allows writes.
OsPermits(d, f, p) ==
    \A a \in Ancestors(p) : a \notin DOMAIN f /\ (a \notin d => Parent(a) \notin noWrite)

MatchesNoPattern(p) == ~MatchGit(p) /\ ~MatchTarball(p) /\ ~MatchZip(p)

LooksLikeURL(p) == Contains(p, SchemeSep) \/ Contains(p, At)

CreatedChain ==
    /\ result.Error = Nil
    /\ result.WasCreated
    /\ IsAbs(result.FinalPath)
    /\ \A a \in Ancestors(result.FinalPath) : a \in dirs

\* C1: Take called with an empty Path returns the error ErrInvalidPath,
\* whatever GitCloneDepth and Force are.
C1_EmptyPathIsInvalidPath ==
    Called /\ opts.Path = <<>> => result = ResultError(ErrInvalidPath)

C1_Witness ==
    /\ Called
    /\ opts.Path = <<>>
    /\ opts.Force
    /\ opts.GitCloneDepth = 1
    /\ result.Error = ErrInvalidPath

\* C2: every Result of Take has exactly one of WasCreated, WasCloned,
\* WasDownloaded set when Error is nil, and none of them when Error is not nil.
C2_OneFlagOnSuccessNoneOnFailure ==
    Called => IF result.Error = Nil THEN FlagCount = 1 ELSE FlagCount = 0

C2_Witness ==
    /\ Called
    /\ handler = "handleGitURL"
    /\ result.Error = Nil
    /\ result.WasCloned
    /\ FlagCount = 1

\* C3: whenever Take returns with Error nil, FinalPath is an absolute path
\* that names an existing directory when Take returns, for every archive
\* content.
C3_FinalPathIsDirectory ==
    Called /\ result.Error = Nil => IsAbs(result.FinalPath) /\ result.FinalPath \in dirs

\* C4 as claimed: every non-empty Path that matches none of the three
\* patterns has, when the OS permits the creation, its whole directory chain
\* created and is answered with Error nil, WasCreated and an absolute
\* FinalPath that is a directory.
C4_Original ==
    /\ Called
    /\ opts.Path # <<>>
    /\ MatchesNoPattern(opts.Path)
    /\ HomeResolves(opts.Path)
    /\ OsPermits(pre.dirs, pre.files, Target(opts.Path))
    => CreatedChain

\* C4 as amended: the same for every non-empty Path that contains neither
\* "://" nor "@" and is not the path of a local git repository.
C4_LocalPathIsCreated ==
    /\ Called
    /\ opts.Path # <<>>
    /\ ~LooksLikeURL(opts.Path)
    /\ ~IsGitRepoIn(pre.dirs, opts.Path)
    /\ HomeResolves(opts.Path)
    /\ OsPermits(pre.dirs, pre.files, Target(opts.Path))
    => CreatedChain /\ result.FinalPath = Target(opts.Path)

C4_Witness ==
    /\ Called
    /\ opts.Path = P_a_b
    /\ Target(P_a) \notin pre.dirs
    /\ CreatedChain
    /\ result.FinalPath = <<"/", "w", "/", "a", "/", "b">>

\* The Path of the last two calls names a directory that existed before the
\* first of them.
TwiceOnExistingDir ==
    /\ calls >= 2
    /\ prev.opts = opts
    /\ opts.Path # <<>>
    /\ HomeResolves(opts.Path)
    /\ Target(opts.Path) \in prev.pre.dirs

BothSucceededAlike ==
    /\ prev.result.Error = Nil
    /\ result.Error = Nil
    /\ prev.result.FinalPath = result.FinalPath

\* C5 as claimed: two calls in a row with the same Path that names an
\* existing local directory return no error and the same FinalPath, whatever
\* the directory contains.
C5_Original == TwiceOnExistingDir => BothSucceededAlike

\* C5 as amended: the same when the Path contains neither "://" nor "@" and
\* the directory holds no .git directory.
C5_TwiceOnPlainDir ==
    /\ TwiceOnExistingDir
    /\ ~LooksLikeURL(opts.Path)
    /\ ~IsGitRepoIn(prev.pre.dirs, opts.Path)
    => BothSucceededAlike

C5_Witness ==
    /\ TwiceOnExistingDir
    /\ opts.Path = P_abs
    /\ P_abs \o <<"/", "o", "l", "d">> \in DOMAIN prev.pre.files
    /\ BothSucceededAlike
    /\ result.FinalPath = P_abs

\* C6 as claimed: a Path that contains "://" or "@" and matches none of the
\* three patterns makes Take return exactly ErrInvalidURL.
C6_Original ==
    Called /\ LooksLikeURL(opts.Path) /\ MatchesNoPattern(opts.Path)
    => result.Error = ErrInvalidURL

\* C6 as amended: the same when the Path is not the path of a local git
\* repository.
C6_UnknownURLIsInvalidURL ==
    /\ Called
    /\ LooksLikeURL(opts.Path)
    /\ MatchesNoPattern(opts.Path)
    /\ ~IsGitRepoIn(pre.dirs, opts.Path)
    => result = ResultError(ErrInvalidURL)

C6_Witness == Called /\ opts.Path = P_xyz /\ result.Error = ErrInvalidURL

HasScheme(p, schemes) == \E sch \in schemes : HasPrefix(p, sch \o SchemeSep)

EndsInTar(p) == \E suf \in TarballSuffixes : HasSuffix(p, suf)

\* C7: for a Path that is not a local git repository, the tarball handler
\* runs exactly when the Path has an http, https or ftp scheme and a tar
\* suffix, and the zip handler exactly when it has such a scheme and ends in
\* .zip; nothing without one of these schemes reaches an archive handler.
C7_ArchiveDispatchByScheme ==
    Called /\ ~IsGitRepoIn(pre.dirs, opts.Path)
    => /\ handler = "handleTarballURL"
          <=> HasScheme(opts.Path, ArchiveSchemes) /\ EndsInTar(opts.Path)
       /\ handler = "handleZipURL"
          <=> HasScheme(opts.Path, ArchiveSchemes) /\ HasSuffix(opts.Path, DotZip)

GitShaped(p) ==
    /\ IdentAtLens(p) # {} \/ HasScheme(p, GitSchemes)
    /\ HasSuffix(p, DotGit) \/ HasSuffix(p, DotGit \o Slash)

GitRuns == {i \in 1..Len(events) : events[i].op = "exec git"}

\* C8: every Path that starts with an identifier and '@', or with an http,
\* https, git, ssh, ftp, ftps or rsync scheme, and ends with ".git" or
\* ".git/", has the external git clone invoked for it, and is answered with
\* WasCloned when the clone exits zero.
C8_GitShapedPathIsCloned ==
    Called /\ GitShaped(opts.Path)
    => /\ handler = "handleGitURL"
       /\ GitRuns # {}
       /\ \A i \in GitRuns : events[i].outcome = "exit 0" => result.WasCloned

\* C9: given the path of an existing local git repository, Take runs the
\* git clone of it and, when the tool succeeds, returns Error nil with
\* WasCloned.
C9_LocalRepoIsCloned ==
    Called /\ IsGitRepoIn(pre.dirs, opts.Path)
    => /\ GitRuns # {}
       /\ \A i \in GitRuns :
              events[i].outcome = "exit 0" => result.Error = Nil /\ result.WasCloned

\* C10: when the external git clone exits non-zero, the Error of the Result
\* is, or wraps, the take package's ErrGitCloneFailed and carries the
\* combined output of the tool.
C10_CloneFailureIsGitCloneFailed ==
    Called
    => \A i \in GitRuns :
           events[i].outcome = "exit 1"
           => /\ ErrorsIs(result.Error, ErrGitCloneFailed)
              /\ \E k \in 1..Len(result.Error.msg) :
                     result.Error.msg[k] = events[i].output

\* C11: GetRepoName strips a trailing ".git" and returns the last name
\* segment of the URL, for the SSH-style user@host:owner/repo and for the
\* HTTPS-style URLs alike: the name the URL was put together from.
C11_GetRepoNameIsLastSegment ==
    ret.fn = "GetRepoName"
    => \A in \in RepoURLs : ret.args = <<in.url>> => ret.value = in.repo

C11_Witness ==
    /\ ret.fn = "GetRepoName"
    /\ ret.args = <<<<"g", "i", "t", "@", "g", "i", "t", "h", "u", "b", ".", "c", "o", "m",
                     ":", "u", "s", "e", "r", "/", "r", "e", "p", "o", ".", "g", "i", "t">>>>
    /\ ret.value = <<"r", "e", "p", "o">>

\* The number a decimal numeral denotes.
DigitValue(c) == CHOOSE v \in 0..9 : Digits[v + 1] = c

RECURSIVE Atoi(_)
Atoi(numeral) ==
    IF Len(numeral) = 1 THEN DigitValue(numeral[1])
    ELSE 10 * Atoi(SubSeq(numeral, 1, Len(numeral) - 1)) + DigitValue(numeral[Len(numeral)])

\* The name handleGitURL clones into.
TargetName(p) == IF GetRepoName(p) = <<>> THEN Base(p) ELSE GetRepoName(p)

\* C12: git is run with "--depth N" exactly when the requested depth N is
\* greater than 0; with depth 0 or a negative depth no depth flag is passed;
\* the URL and the target directory follow, the same in both cases.
C12_DepthFlagOnlyWhenPositive ==
    \A i \in GitRuns :
        LET args == events[i].args
            tail == <<opts.Path, TargetName(opts.Path)>>
        IN  /\ args[1] = StrClone
            /\ (\E k \in 1..Len(args) : args[k] = StrDepthFlag) <=> opts.GitCloneDepth > 0
            /\ IF opts.GitCloneDepth > 0
               THEN /\ Len(args) = 5
                    /\ args[2] = StrDepthFlag
                    /\ Atoi(args[3]) = opts.GitCloneDepth
                    /\ SubSeq(args, 4, 5) = tail
               ELSE SubSeq(args, 2, Len(args)) = tail

C12_Witness ==
    /\ GitRuns # {}
    /\ opts.GitCloneDepth = 12
    /\ \A i \in GitRuns :
           events[i].args = <<StrClone, StrDepthFlag, <<"1", "2">>, P_https_git, <<"r">>>>

ArchiveHandlers == {"handleTarballURL", "handleZipURL"}

ScratchDir == Join(TempDir, ScratchName)

\* The last call moved the extracted directory and the move failed.
FailedMove ==
    /\ handler = "handleTarballURL"
    /\ Len(events) = 2
    /\ events[2].outcome = "exit 0"
    /\ result.Error # Nil
    /\ result.Error.chain[1] = "os.PathError"

Downloads == {i \in 1..Len(events) : events[i].op = "http.Get"}

\* The download of the last call failed: in transport, in the copy of the
\* body, or with a status outside 200..299.
DownloadFailed(outcome) ==
    \/ outcome \in {"transport error", "200 broken body"}
    \/ StatusCode(outcome) \notin 200..299

\* C14: when the GET fails in transport, the body cannot be copied or the
\* status is not 2xx, the tarball and zip handlers return exactly
\* ErrDownloadFailed and attempt no extraction: tar is not run and the
\* filesystem is as it was.
C14_FailedDownloadIsDownloadFailed ==
    Called /\ handler \in ArchiveHandlers
    => \A i \in Downloads :
           DownloadFailed(events[i].outcome)
           => /\ result = ResultError(ErrDownloadFailed)
              /\ Len(events) = 1
              /\ dirs = pre.dirs
              /\ files = pre.files

C14_Witness ==
    /\ Called
    /\ handler = "handleZipURL"
    /\ Downloads # {}
    /\ events[1].outcome = "404"
    /\ result.Error = ErrDownloadFailed

\* C15: every error an archive handler returns after a download that
\* succeeded (tar exiting non-zero, no directory in the archive, an
\* unreadable zip, a failed write, a failed move) is, or wraps,
\* ErrExtractionFailed.
C15_ArchiveErrorsAreExtractionFailed ==
    Called /\ handler \in ArchiveHandlers /\ result.Error # Nil
    => \A i \in Downloads :
           ~DownloadFailed(events[i].outcome)
           => ErrorsIs(result.Error, ErrExtractionFailed)

\* The archive the last call downloaded, as the directories and the files
\* (name and content) it holds.
ServedDirs(h, ar) ==
    IF h = "handleTarballURL" THEN ar.dirs
    ELSE {StripTrailingSlashes(ar.File[k].Name) :
             k \in {n \in 1..Len(ar.File) : EntryIsDir(ar.File[n])}}

ServedFiles(h, ar) ==
    IF h = "handleTarballURL"
    THEN {[name |-> x, data |-> ar.files[x]] : x \in DOMAIN ar.files}
    ELSE {[name |-> ar.File[k].Name, data |-> ar.File[k].data] :
             k \in {n \in 1..Len(ar.File) : ~EntryIsDir(ar.File[n])}}

TopOf(name) == Split(name, "/")[1]

\* The archive's sole top-level entry is the directory top, and it holds a
\* file.
SoleTopDir(h, ar, top) ==
    /\ ar.valid
    /\ top \notin {Dot, DotDot}
    /\ ServedFiles(h, ar) # {}
    /\ \A x \in ServedDirs(h, ar) : TopOf(x) = top
    /\ \A e \in ServedFiles(h, ar) : TopOf(e.name) = top /\ e.name # top

RoundTrip(e) ==
    /\ result.FinalPath = Join(Cwd, TopOf(e.name))
    /\ result.FinalPath \in dirs
    /\ Join(Cwd, e.name) \in DOMAIN files
    /\ files[Join(Cwd, e.name)] = e.data

\* C16 as claimed: for a tar or zip archive whose sole top-level entry is a
\* directory D that holds a file f, a successful Take leaves the directory D
\* in the working directory with f in it, its content unchanged, and
\* FinalPath is the absolute path of D.
C16_Original ==
    Called /\ handler \in ArchiveHandlers /\ result.Error = Nil
    => \A i \in Downloads :
           \A e \in ServedFiles(handler, events[i].output) :
               SoleTopDir(handler, events[i].output, TopOf(e.name)) => RoundTrip(e)

\* The zip handler passes over the top-level names that begin with "." or "_".
SkippedByZip(h, top) ==
    h = "handleZipURL" /\ (HasPrefix(top, Dot) \/ HasPrefix(top, <<"_">>))

\* C16 as amended: the same, for a zip archive only when the name of D
\* begins with neither "." nor "_".
C16_ArchiveRoundTrip ==
    Called /\ handler \in ArchiveHandlers /\ result.Error = Nil
    => \A i \in Downloads :
           \A e \in ServedFiles(handler, events[i].output) :
               /\ SoleTopDir(handler, events[i].output, TopOf(e.name))
               /\ ~SkippedByZip(handler, TopOf(e.name))
               => RoundTrip(e)

C16_Witness ==
    /\ Called
    /\ handler = "handleZipURL"
    /\ result.Error = Nil
    /\ Downloads # {}
    /\ SoleTopDir(handler, events[1].output, <<"d">>)
    /\ result.FinalPath = <<"/", "w", "/", "d">>
    /\ files[<<"/", "w", "/", "d", "/", "f">>] = "content of f"

\* The last call took the local-directory branch and reached os.MkdirAll.
LocalBranch ==
    /\ opts.Path # <<>>
    /\ ~LooksLikeURL(opts.Path)
    /\ ~IsGitRepoIn(pre.dirs, opts.Path)
    /\ HomeResolves(opts.Path)

\* Something on the way to the directory p is a regular file.
FileOnTheWay(f, p) == \E a \in Ancestors(p) : a \in DOMAIN f

\* The first directory missing on the way to p would be made in a directory
\* that denies writes.
CreationDenied(d, f, p) ==
    /\ ~FileOnTheWay(f, p)
    /\ \E a \in Ancestors(p) : a \notin d /\ Parent(a) \in d /\ Parent(a) \in noWrite

\* C17: on the local-path branch, a directory creation the OS denies makes
\* Take return exactly ErrPermissionDenied; every other failure to create
\* the directory is returned as the error of the OS and is not
\* ErrPermissionDenied.
C17_DenialIsPermissionDenied ==
    Called /\ LocalBranch
    => /\ CreationDenied(pre.dirs, pre.files, Target(opts.Path))
          => result = ResultError(ErrPermissionDenied)
       /\ FileOnTheWay(pre.files, Target(opts.Path))
          => /\ result = ResultError(OsError("ENOTDIR"))
             /\ ~ErrorsIs(result.Error, ErrPermissionDenied)
       /\ result.Error = ErrPermissionDenied
          => CreationDenied(pre.dirs, pre.files, Target(opts.Path))

C17_Witness ==
    /\ Called
    /\ opts.Path = P_n_c
    /\ Cwd \o <<"/", "n">> \in noWrite
    /\ result = ResultError(ErrPermissionDenied)
    /\ Target(P_n_c) \notin dirs

\* C18: expandPath fails with ErrInvalidPath on the empty string, replaces
\* a leading "~" by the home directory ("~/sub" becomes the home directory
\* joined with "sub"), returns an absolute path unchanged and returns a
\* relative path lexically cleaned ("./test" becomes "test").
C18_ExpandPath ==
    ret.fn = "expandPath"
    => LET path == ret.args[1]
       IN  /\ path = <<>> => ret.value = [path |-> <<>>, err |-> ErrInvalidPath]
           /\ \A r \in HomePaths :
                  path = r.path /\ home # <<>>
                  => ret.value = [path |-> home \o r.rest, err |-> Nil]
           /\ path \in AbsolutePaths => ret.value = [path |-> path, err |-> Nil]
           /\ \A r \in RelativePaths :
                  path = r.path => ret.value = [path |-> r.clean, err |-> Nil]

C18_Witness ==
    /\ ret.fn = "expandPath"
    /\ ret.args = <<<<"~", "/", "s", "u", "b">>>>
    /\ home = HomeDir
    /\ ret.value = [path |-> <<"/", "h", "/", "s", "u", "b">>, err |-> Nil]

\* What the claim says of a run of main in which Take was called: exit code
\* 0 and FinalPath on standard output when Take succeeded, exit code 1, a
\* message on standard error and nothing on standard output when it failed.
ExitFollowsTake ==
    IF result.Error = Nil
    THEN proc.code = 0 /\ proc.stdout = <<result.FinalPath>>
    ELSE proc.code = 1 /\ proc.stderr # <<>> /\ proc.stdout = <<>>

UsageExit == proc.code = 1 /\ proc.stderr # <<>> /\ proc.stdout = <<>>

\* C19 as claimed: the program exits with code 0 and prints FinalPath when
\* Take succeeds; when Take returns an error, or when the number of
\* positional arguments is not exactly one, it exits with code 1, writes a
\* message to standard error and prints nothing on standard output.
C19_Original ==
    proc.exited
    => /\ Called => ExitFollowsTake
       /\ Len(proc.inv.args) # 1 => UsageExit

\* C19 as amended: the same for the command lines whose flags parse and do
\* not ask for the version.
C19_ExitCodeAndOutput ==
    proc.exited /\ proc.inv.parse = "ok" /\ ~proc.inv.showVersion
    => IF Len(proc.inv.args) # 1
       THEN ~Called /\ UsageExit /\ proc.stderr = <<UsageLine>>
       ELSE /\ Called
            /\ opts = [Path |-> proc.inv.args[1], GitCloneDepth |-> proc.inv.depth,
                       Force |-> proc.inv.force]
            /\ ExitFollowsTake
            /\ result.Error = Nil => proc.stderr = <<>>
            /\ result.Error # Nil => proc.stderr = <<result.Error.msg>>

C19_Witness ==
    /\ proc.exited
    /\ proc.inv.parse = "ok"
    /\ ~proc.inv.showVersion
    /\ proc.inv.args = <<P_xyz>>
    /\ result.Error = ErrInvalidURL
    /\ proc.code = 1
    /\ proc.stdout = <<>>
    /\ proc.stderr = <<<<"invalid URL format">>>>

\* C20: IsValidURL is true of the https:// URLs that end in ".git", of the
\* git@host:path strings that end in ".git" and of the path of an existing
\* local git repository; it is false of the empty string, of the URLs
\* without the ".git" suffix and of the git@ strings without ":".
C20_IsValidURL ==
    ret.fn = "IsValidURL"
    => \A in \in ValidityInputs :
           ret.args = <<in.url>>
           => /\ in.kind \in {"https", "ssh"} => ret.value = TRUE
              /\ in.kind = "path" /\ IsGitRepo(in.url) => ret.value = TRUE
              /\ in.kind \in {"empty", "no suffix", "no colon"} => ret.value = FALSE

\* C21: Clone called with a URL that IsValidURL rejects returns
\* git.ErrInvalidURL, starts no git process and creates no target directory.
C21_CloneRejectsInvalidURL ==
    ret.fn = "Clone" /\ ~IsValidURL(ret.args[1].URL)
    => /\ ret.value = GitErrInvalidURL
       /\ events = <<>>
       /\ dirs = pre.dirs
       /\ files = pre.files

C21_Witness ==
    /\ ret.fn = "Clone"
    /\ ret.args[1].URL = <<"n", "o", "t", "-", "a", "-", "g", "i", "t", "-", "u", "r", "l">>
    /\ ret.args[1].TargetDir = <<"c">>
    /\ ret.value = GitErrInvalidURL
    /\ Join(Cwd, <<"c">>) \notin dirs

\* The first segments of the entry names that root detection does not skip.
KeptSegments(entries) ==
    {Split(entries[i].Name, "/")[1] : i \in 1..Len(entries)}
    \ {seg \in {Split(entries[i].Name, "/")[1] : i \in 1..Len(entries)} :
          HasPrefix(seg, Dot) \/ HasPrefix(seg, <<"_">>)}

\* C22: the zip root depends only on the set of entry names: the common
\* first segment of the entries not starting with "." or "_" when they all
\* share it, and else the archive's base name without ".zip".
C22_ZipRootByNameSet ==
    ret.fn = "ZipRootName"
    => ret.value = (IF Cardinality(KeptSegments(ret.args[2])) = 1
                    THEN CHOOSE seg \in KeptSegments(ret.args[2]) : TRUE
                    ELSE TrimSuffix(Base(ret.args[1]), DotZip))

\* The files and directories that the last call added.
Added == (dirs \cup DOMAIN files) \ (pre.dirs \cup DOMAIN pre.files)

\* C23: every entry of the zip is created inside the scratch directory, so
\* that all a call of the zip handler adds outside the scratch directory
\* is what the final move put at the destination.
C23_ZipEntriesStayInScratch ==
    Called /\ handler = "handleZipURL"
    => \A x \in Added :
          \/ Under(ScratchDir, x)
          \/ result.Error = Nil /\ Under(result.FinalPath, x)

\* C24: when the entries of the zip that root detection keeps have more
\* than one top-level segment, a successful Take returns the directory
\* named after the archive, in the working directory, and the archive's
\* files are in it.
C24_FallbackRootHoldsEntries ==
    Called /\ handler = "handleZipURL" /\ result.Error = Nil
    => \A i \in Downloads :
           Cardinality(KeptSegments(events[i].output.File)) > 1
           => /\ result.FinalPath = Join(Cwd, TrimSuffix(Base(opts.Path), DotZip))
              /\ result.FinalPath \in dirs
              /\ \A e \in ServedFiles(handler, events[i].output) :
                     /\ Join(result.FinalPath, e.name) \in DOMAIN files
                     /\ files[Join(result.FinalPath, e.name)] = e.data

Removals == {i \in 1..Len(events) : events[i].op = "os.RemoveAll"}

Moves == {i \in 1..Len(events) : events[i].op = "os.Rename"}

\* x is a file of the zip ar with its content, or a directory of ar or
\* above one of its files, the entry names taken from the working directory.
FromArchive(ar, x) ==
    \/ \E e \in ServedFiles("handleZipURL", ar) :
          IF x \in DOMAIN files
          THEN x = Join(Cwd, e.name) /\ files[x] = e.data
          ELSE Under(x, Join(Cwd, e.name))
    \/ x \in dirs /\ \E dir \in ServedDirs("handleZipURL", ar) : Under(x, Join(Cwd, dir))

\* What the working directory held before the last call is still there.
WorkingDirKept ==
    /\ \A x \in pre.dirs : Under(Cwd, x) => x \in dirs
    /\ \A x \in DOMAIN pre.files :
           Under(Cwd, x) => x \in DOMAIN files /\ files[x] = pre.files[x]

\* C25: the zip handler moves the extracted root to the destination only
\* right after removing what was there, and removes it only once all
\* entries are extracted: a call that fails before the move leaves the
\* working directory alone, a removal leaves nothing of the old
\* destination, and after a successful Take all that the destination
\* holds comes from the archive.
C25_RemoveThenMoveAfterExtraction ==
    Called /\ handler = "handleZipURL"
    => /\ \A i \in Moves :
              /\ i - 1 \in Removals
              /\ events[i - 1].args = events[i].args
       /\ \A i \in Removals :
              /\ i - 1 \in Downloads
              /\ events[i - 1].outcome = "200"
              /\ result.Error # Nil => result.Error.msg[1] = "failed to move directory: "
       /\ Removals = {} /\ result.Error # Nil => WorkingDirKept
       /\ \A i \in Removals :
              events[i].outcome = "ok"
              => \A x \in dirs \cup DOMAIN files :
                     Under(events[i].args[1], x) /\ x # events[i].args[1]
                     => FromArchive(events[i - 1].output, x)
       /\ result.Error = Nil
          => /\ Moves # {}
             /\ \A i \in Moves : events[i].args[1] = result.FinalPath

C25_Witness ==
    /\ Called
    /\ handler = "handleZipURL"
    /\ result.Error = Nil
    /\ result.FinalPath = <<"/", "w", "/", "d">>
    /\ <<"/", "w", "/", "d", "/", "o", "l", "d">> \in DOMAIN pre.files
    /\ <<"/", "w", "/", "d", "/", "o", "l", "d">> \notin DOMAIN files
    /\ <<"/", "w", "/", "d", "/", "f">> \in DOMAIN files
    /\ Len(events) = 3
    /\ events[2].op = "os.RemoveAll"
    /\ events[3].op = "os.Rename"

\* The steps of a call in which the environment answered.
Answered(ev) == {i \in 1..Len(ev) : ev[i].op \in {"http.Get", "exec git", "exec tar"}}

\* The output of step i is the archive that was unpacked, and not a text.
Unpacked(ev, i) ==
    /\ ev[i].op = "http.Get"
    /\ ev[i].outcome = "200"
    /\ \/ handler = "handleZipURL"
       \/ \E j \in i + 1..Len(ev) : ev[j].op = "exec tar" /\ ev[j].outcome = "exit 0"

\* The network and the external processes answered the same in the calls
\* whose steps are ev1 and ev2.
SameResponses(ev1, ev2) ==
    /\ Len(ev1) = Len(ev2)
    /\ \A i \in 1..Len(ev1) : ev1[i].op = ev2[i].op
    /\ \A i \in Answered(ev1) : ev1[i].outcome = ev2[i].outcome
    /\ \A i \in Answered(ev1) :
           /\ Unpacked(ev1, i) = Unpacked(ev2, i)
           /\ ev1[i].output = ev2[i].output

\* The move of the call went across two mounted filesystems.
CrossDevice(res) ==
    \E i \in 1..Len(res.Error.msg) : res.Error.msg[i] = "EXDEV"

\* Both calls have been made and the second met the environment of the
\* first: the same answers and the same mounts.
SameEnvironment ==
    /\ calls = 2
    /\ ret.fn = "Take"
    /\ opts = [ret.args[1] EXCEPT !.Force = ~ret.args[1].Force]
    /\ SameResponses(events, ret.value.events)
    /\ CrossDevice(result) = CrossDevice(ret.value.result)

Processes == {i \in 1..Len(events) : events[i].op \in {"exec git", "exec tar"}}

\* The last call unpacked an archive or touched the destination.
ExtractionBegun ==
    \/ \E i \in Processes : events[i].op = "exec tar"
    \/ Removals # {} \/ Moves # {}
    \/ dirs # pre.dirs \/ files # pre.files

\* C27: one call of Take issues at most one HTTP GET and starts at most one
\* process; an archive handler begins to extract only after a GET that was
\* answered 200 with a body it could copy; the local-path branch and the
\* InvalidPath and InvalidURL outcomes issue no request and start no
\* process.
C27_AtMostOneRequestAndProcess ==
    Called
    => /\ Cardinality(Downloads) <= 1
       /\ Cardinality(Processes) <= 1
       /\ handler \in ArchiveHandlers /\ ExtractionBegun
          => /\ Downloads = {1}
             /\ events[1].outcome = "200"
             /\ \A i \in Processes \cup Removals \cup Moves : i > 1
       /\ handler = "" \/ result.Error \in {ErrInvalidPath, ErrInvalidURL}
          => Downloads = {} /\ Processes = {}

C27_Witness ==
    /\ Called
    /\ handler = "handleTarballURL"
    /\ result.Error = Nil
    /\ Len(events) = 2
    /\ events[1].op = "http.Get"
    /\ events[1].outcome = "200"
    /\ events[2].op = "exec tar"

\* C28: when the tarball or the zip handler returns an error, at whichever
\* step, the working directory holds what it held before the call: nothing
\* is added to it and nothing that was in it is removed.
C28_FailedArchiveTakeKeepsWorkingDir ==
    Called /\ handler \in ArchiveHandlers /\ result.Error # Nil
    => /\ WorkingDirKept
       /\ \A x \in Added : ~Under(Cwd, x)

\* The GET of step i was answered, with a status other than 200.
AnsweredNot200(i) ==
    /\ events[i].outcome \in {"200", "200 broken body", "204", "404"}
    /\ StatusCode(events[i].outcome) # HttpStatusOK

\* C29: an archive handler goes on to extraction only when the response
\* status is exactly 200; any other status, a 2xx one such as 204 as well,
\* ends the call with ErrDownloadFailed and nothing extracted.
C29_OnlyStatus200Proceeds ==
    Called /\ handler \in ArchiveHandlers
    => \A i \in Downloads :
           /\ AnsweredNot200(i)
              => /\ result = ResultError(ErrDownloadFailed)
                 /\ ~ExtractionBegun
                 /\ Len(events) = 1
           /\ ExtractionBegun => StatusCode(events[i].outcome) = HttpStatusOK

C29_Witness ==
    /\ Called
    /\ handler = "handleTarballURL"
    /\ Downloads = {1}
    /\ events[1].outcome = "204"
    /\ result.Error = ErrDownloadFailed
    /\ Len(events) = 1

\* The shell reads text as exactly the words given, with nothing taken as
\* syntax and no quote left open.
ReadsAs(text, words) ==
    /\ ShellWords(text).words = words
    /\ ~ShellWords(text).syntax
    /\ ~ShellWords(text).open

\* shellQuote(s) is read back by the shell as the single word s.
QuoteRoundTrip ==
    ret.fn = "shellQuote" => ReadsAs(ret.value, <<ret.args[1]>>)

\* C30: off Windows, the shell reads shellQuote(s) back as the single word
\* s, for every s; so the command of ChangeDir(path) of Bash and Zsh is
\* read as cd with the operand path, nothing of path taken as syntax, and
\* changes to exactly the directory path.
C30_ChangeDirGoesToPath ==
    /\ QuoteRoundTrip
    /\ ret.fn = "ChangeDir"
       => /\ ReadsAs(ret.value, <<<<"c", "d">>, ret.args[2]>>)
          /\ CdBuiltin(ShellWords(ret.value).words[2])
               = [kind |-> "directory", path |-> ret.args[2]]

====
